---- MODULE Spec2Model ----
(***************************************************************************)
(* Model of the azure-devops-mcp server: the tool registry (allTools),     *)
(* schema validation of tool arguments (zod safeParse), the tool call      *)
(* dispatcher (CallToolRequestSchema handler), the AzureDevOpsClient       *)
(* facade with its lazily cached sub-clients, and the tool handlers that   *)
(* the dispatcher properties are exercised with.                           *)
(***************************************************************************)
EXTENDS Integers, Sequences, FiniteSets, TLC

(***************************************************************************)
(* Bounds of the model.                                                    *)
(***************************************************************************)
MaxCalls == 2

Calls == 1..MaxCalls

(***************************************************************************)
(* JSON / JavaScript values.  Every value is a record of the same shape so *)
(* that any two values can be compared: t is the JavaScript type, n the    *)
(* number (or 0/1 for a boolean), s the string, items the elements of an   *)
(* array (k = "") or the own properties of an object in insertion order.   *)
(***************************************************************************)
JUndef == [t |-> "undefined", n |-> 0, s |-> "", items |-> <<>>]

JNull == [t |-> "null", n |-> 0, s |-> "", items |-> <<>>]

JNum(n) == [t |-> "number", n |-> n, s |-> "", items |-> <<>>]

JStr(s) == [t |-> "string", n |-> 0, s |-> s, items |-> <<>>]

JBool(b) == [t |-> "boolean", n |-> IF b THEN 1 ELSE 0, s |-> "", items |-> <<>>]

Prop(k, v) == [k |-> k, v |-> v]

JObj(props) == [t |-> "object", n |-> 0, s |-> "", items |-> props]

RECURSIVE AsElements(_)
AsElements(vs) ==
  IF vs = <<>> THEN <<>> ELSE <<Prop("", Head(vs))>> \o AsElements(Tail(vs))

JArr(vs) == [t |-> "array", n |-> 0, s |-> "", items |-> AsElements(vs)]

\* obj[key] for an own property (the last write of a key wins), else undefined
RECURSIVE GetProp(_, _)
GetProp(props, key) ==
  IF props = <<>> THEN JUndef
  ELSE IF props[Len(props)].k = key THEN props[Len(props)].v
  ELSE GetProp(SubSeq(props, 1, Len(props) - 1), key)

Get(obj, key) == IF obj.t = "object" THEN GetProp(obj.items, key) ELSE JUndef

HasKey(obj, key) ==
  obj.t = "object" /\ \E i \in 1..Len(obj.items) : obj.items[i].k = key

\* JavaScript truthiness, as used by `args || {}` and `project || default`
Truthy(v) ==
  CASE v.t = "undefined" -> FALSE
    [] v.t = "null" -> FALSE
    [] v.t = "boolean" -> v.n = 1
    [] v.t = "number" -> v.n # 0
    [] v.t = "string" -> v.s # ""
    [] OTHER -> TRUE

(***************************************************************************)
(* JSON.stringify(value, null, 2).                                         *)
(***************************************************************************)
RECURSIVE Pad(_)
Pad(n) == IF n = 0 THEN "" ELSE " " \o Pad(n - 1)

RECURSIVE EscapeChars(_)
EscapeChars(s) ==
  IF s = "" THEN ""
  ELSE LET c == SubSeq(s, 1, 1)
           e == IF c = "\"" THEN "\\\"" ELSE IF c = "\\" THEN "\\\\" ELSE c
       IN  e \o EscapeChars(SubSeq(s, 2, Len(s)))

Quote(s) == "\"" \o EscapeChars(s) \o "\""

\* the properties JSON.stringify keeps: undefined-valued ones are omitted
RECURSIVE Defined(_)
Defined(props) ==
  IF props = <<>> THEN <<>>
  ELSE IF Head(props).v.t = "undefined" THEN Defined(Tail(props))
  ELSE <<Head(props)>> \o Defined(Tail(props))

RECURSIVE Ser(_, _)
RECURSIVE SerItems(_, _, _)
SerItems(items, isObject, ind) ==
  IF items = <<>> THEN ""
  ELSE LET it == Head(items)
           one == Pad(ind) \o (IF isObject THEN Quote(it.k) \o ": " ELSE "") \o Ser(it.v, ind)
       IN  IF Len(items) = 1 THEN one
           ELSE one \o ",\n" \o SerItems(Tail(items), isObject, ind)

Ser(v, ind) ==
  CASE v.t = "undefined" -> "null"
    [] v.t = "null" -> "null"
    [] v.t = "number" -> ToString(v.n)
    [] v.t = "boolean" -> IF v.n = 1 THEN "true" ELSE "false"
    [] v.t = "string" -> Quote(v.s)
    [] v.t = "array" ->
         IF v.items = <<>> THEN "[]"
         ELSE "[\n" \o SerItems(v.items, FALSE, ind + 2) \o "\n" \o Pad(ind) \o "]"
    [] v.t = "object" ->
         IF Defined(v.items) = <<>> THEN "{}"
         ELSE "{\n" \o SerItems(Defined(v.items), TRUE, ind + 2) \o "\n" \o Pad(ind) \o "}"

JSONstringify(v) == Ser(v, 0)

\* s contains sub as a substring
Contains(s, sub) ==
  \E i \in 1..(Len(s) - Len(sub) + 1) : SubSeq(s, i, i + Len(sub) - 1) = sub

StartsWith(s, pre) == Len(s) >= Len(pre) /\ SubSeq(s, 1, Len(pre)) = pre

(***************************************************************************)
(* zod schemas, as the class instances the tool tables construct.          *)
(***************************************************************************)
ZBase(cls) ==
  [cls |-> cls, description |-> JUndef, inner |-> <<>>, dflt |-> JUndef,
   options |-> <<>>, shape |-> <<>>]

ZString == ZBase("ZodString")

ZNumber == ZBase("ZodNumber")

ZBoolean == ZBase("ZodBoolean")

ZArray(element) == [ZBase("ZodArray") EXCEPT !.inner = <<element>>]

ZEnum(options) == [ZBase("ZodEnum") EXCEPT !.options = options]

ZObject(shape) == [ZBase("ZodObject") EXCEPT !.shape = shape]

\* .optional() and .default(v) wrap the schema; the wrapper starts with the
\* description of the schema it wraps (zod's processCreateParams)
ZOptional(schema) ==
  [ZBase("ZodOptional") EXCEPT !.inner = <<schema>>, !.description = schema.description]

ZDefault(schema, v) ==
  [ZBase("ZodDefault") EXCEPT !.inner = <<schema>>, !.dflt = v,
                              !.description = schema.description]

\* .describe(text) returns a copy of the outermost schema carrying the text
Describe(schema, text) == [schema EXCEPT !.description = JStr(text)]

(***************************************************************************)
(* schema.safeParse(data): the issues zod collects and the parsed value.   *)
(***************************************************************************)
RECURSIVE JoinValues(_)
JoinValues(options) ==
  IF options = <<>> THEN ""
  ELSE IF Len(options) = 1 THEN "'" \o Head(options) \o "'"
  ELSE "'" \o Head(options) \o "' | " \o JoinValues(Tail(options))

RECURSIVE AsStrings(_)
AsStrings(ss) == IF ss = <<>> THEN <<>> ELSE <<JStr(Head(ss))>> \o AsStrings(Tail(ss))

InvalidType(expected, data, path) ==
  JObj(<< Prop("code", JStr("invalid_type")),
          Prop("expected", JStr(expected)),
          Prop("received", JStr(data.t)),
          Prop("path", JArr(path)),
          Prop("message", JStr(IF data.t = "undefined" THEN "Required"
                               ELSE "Expected " \o expected \o ", received " \o data.t)) >>)

InvalidEnumValue(options, data, path) ==
  JObj(<< Prop("received", data),
          Prop("code", JStr("invalid_enum_value")),
          Prop("options", JArr(AsStrings(options))),
          Prop("path", JArr(path)),
          Prop("message", JStr("Invalid enum value. Expected " \o JoinValues(options)
                               \o ", received '" \o data.s \o "'")) >>)

ParseOk(v) == [issues |-> <<>>, value |-> v]

ParseFail(issue) == [issues |-> <<issue>>, value |-> JUndef]

Primitive(cls) ==
  CASE cls = "ZodString" -> "string"
    [] cls = "ZodNumber" -> "number"
    [] cls = "ZodBoolean" -> "boolean"

RECURSIVE Parse(_, _, _)
RECURSIVE ParseShape(_, _, _)
RECURSIVE ParseElements(_, _, _, _)
\* ZodObject: every declared key is parsed, all issues are collected, and
\* undeclared keys are stripped from the result
ParseShape(shape, data, path) ==
  IF shape = <<>> THEN [issues |-> <<>>, props |-> <<>>]
  ELSE LET key == Head(shape)[1]
           r == Parse(Head(shape)[2], Get(data, key), path \o <<JStr(key)>>)
           rest == ParseShape(Tail(shape), data, path)
           keep == r.value.t # "undefined" \/ HasKey(data, key)
       IN  [issues |-> r.issues \o rest.issues,
            props |-> (IF keep THEN <<Prop(key, r.value)>> ELSE <<>>) \o rest.props]

ParseElements(element, items, i, path) ==
  IF i > Len(items) THEN [issues |-> <<>>, values |-> <<>>]
  ELSE LET r == Parse(element, items[i].v, path \o <<JNum(i - 1)>>)
           rest == ParseElements(element, items, i + 1, path)
       IN  [issues |-> r.issues \o rest.issues, values |-> <<r.value>> \o rest.values]

Parse(schema, data, path) ==
  CASE schema.cls = "ZodObject" ->
         IF data.t # "object" THEN ParseFail(InvalidType("object", data, path))
         ELSE LET r == ParseShape(schema.shape, data, path)
              IN  [issues |-> r.issues, value |-> JObj(r.props)]
    [] schema.cls = "ZodOptional" ->
         IF data.t = "undefined" THEN ParseOk(JUndef)
         ELSE Parse(schema.inner[1], data, path)
    [] schema.cls = "ZodDefault" ->
         Parse(schema.inner[1], IF data.t = "undefined" THEN schema.dflt ELSE data, path)
    [] schema.cls \in {"ZodString", "ZodNumber", "ZodBoolean"} ->
         IF data.t # Primitive(schema.cls)
         THEN ParseFail(InvalidType(Primitive(schema.cls), data, path))
         ELSE ParseOk(data)
    [] schema.cls = "ZodArray" ->
         IF data.t # "array" THEN ParseFail(InvalidType("array", data, path))
         ELSE LET r == ParseElements(schema.inner[1], data.items, 1, path)
              IN  [issues |-> r.issues, value |-> JArr(r.values)]
    [] schema.cls = "ZodEnum" ->
         IF data.t # "string"
         THEN ParseFail(InvalidType(JoinValues(schema.options), data, path))
         ELSE IF \E i \in 1..Len(schema.options) : schema.options[i] = data.s
         THEN ParseOk(data)
         ELSE ParseFail(InvalidEnumValue(schema.options, data, path))

\* safeParse: success iff no issue
safeParse(schema, data) ==
  LET r == Parse(schema, data, <<>>)
  IN  [success |-> r.issues = <<>>, data |-> r.value, issues |-> r.issues]

\* parseResult.error.message: the issues as JSON
ZodErrorMessage(parseResult) == JSONstringify(JArr(parseResult.issues))

(***************************************************************************)
(* The domain tool tables.                                                 *)
(***************************************************************************)
projectTools ==
  << [name |-> "test_connection",
      description |-> "Test the connection to Azure DevOps Server and verify authentication",
      inputSchema |->
        ZObject(<<>>)],
     [name |-> "list_projects",
      description |-> "List all projects in the Azure DevOps organization/collection",
      inputSchema |->
        ZObject(<<>>)],
     [name |-> "get_project",
      description |-> "Get detailed information about a specific project",
      inputSchema |->
        ZObject(<<
          <<"project", Describe(ZString, "Project name or ID")>>
        >>)] >>

gitTools ==
  << [name |-> "list_repos",
      description |-> "List all Git repositories in a project",
      inputSchema |->
        ZObject(<<
          <<"project", Describe(ZOptional(ZString), "Project name (uses default if not specified)")>>
        >>)],
     [name |-> "list_branches",
      description |-> "List branches in a repository",
      inputSchema |->
        ZObject(<<
          <<"project", Describe(ZOptional(ZString), "Project name")>>,
          <<"repository", Describe(ZString, "Repository name or ID")>>
        >>)],
     [name |-> "list_commits",
      description |-> "Get commit history for a repository",
      inputSchema |->
        ZObject(<<
          <<"project", Describe(ZOptional(ZString), "Project name")>>,
          <<"repository", Describe(ZString, "Repository name or ID")>>,
          <<"branch", Describe(ZOptional(ZString), "Branch name (e.g., \"refs/heads/main\")")>>,
          <<"author", Describe(ZOptional(ZString), "Filter by author email")>>,
          <<"fromDate", Describe(ZOptional(ZString), "Start date (ISO format)")>>,
          <<"toDate", Describe(ZOptional(ZString), "End date (ISO format)")>>,
          <<"top", Describe(ZDefault(ZOptional(ZNumber), JNum(50)), "Max commits to return")>>
        >>)],
     [name |-> "get_commit",
      description |-> "Get detailed information about a specific commit including changes",
      inputSchema |->
        ZObject(<<
          <<"project", Describe(ZOptional(ZString), "Project name")>>,
          <<"repository", Describe(ZString, "Repository name or ID")>>,
          <<"commitId", Describe(ZString, "Full commit SHA")>>,
          <<"includeChanges", Describe(ZDefault(ZOptional(ZBoolean), JBool(TRUE)), "Include file changes")>>
        >>)],
     [name |-> "get_commit_diff",
      description |-> "Get the diff/changes for a file in a commit",
      inputSchema |->
        ZObject(<<
          <<"project", Describe(ZOptional(ZString), "Project name")>>,
          <<"repository", Describe(ZString, "Repository name or ID")>>,
          <<"commitId", Describe(ZString, "Commit SHA")>>,
          <<"path", Describe(ZString, "File path to get diff for")>>
        >>)],
     [name |-> "list_pull_requests",
      description |-> "List pull requests in a repository",
      inputSchema |->
        ZObject(<<
          <<"project", Describe(ZOptional(ZString), "Project name")>>,
          <<"repository", Describe(ZString, "Repository name or ID")>>,
          <<"status", Describe(ZDefault(ZOptional(ZEnum(<<"active", "abandoned", "completed", "all">>)), JStr("active")), "PR status filter")>>,
          <<"creatorId", Describe(ZOptional(ZString), "Filter by creator ID")>>,
          <<"reviewerId", Describe(ZOptional(ZString), "Filter by reviewer ID")>>,
          <<"top", Describe(ZDefault(ZOptional(ZNumber), JNum(50)), "Max PRs to return")>>
        >>)],
     [name |-> "get_pull_request",
      description |-> "Get detailed information about a pull request including comments and threads",
      inputSchema |->
        ZObject(<<
          <<"project", Describe(ZOptional(ZString), "Project name")>>,
          <<"repository", Describe(ZString, "Repository name or ID")>>,
          <<"pullRequestId", Describe(ZNumber, "Pull request ID")>>
        >>)],
     [name |-> "compare_branches",
      description |-> "Compare two branches - shows commits in target that are not in base (useful for regression analysis)",
      inputSchema |->
        ZObject(<<
          <<"project", Describe(ZOptional(ZString), "Project name")>>,
          <<"repository", Describe(ZString, "Repository name or ID")>>,
          <<"baseBranch", Describe(ZString, "Base branch (e.g., \"main\" or \"refs/heads/main\")")>>,
          <<"targetBranch", Describe(ZString, "Target branch to compare (e.g., \"develop\")")>>,
          <<"top", Describe(ZDefault(ZOptional(ZNumber), JNum(50)), "Max commits to return")>>
        >>)],
     [name |-> "search_code",
      description |-> "Search for code/text content in a repository",
      inputSchema |->
        ZObject(<<
          <<"project", Describe(ZOptional(ZString), "Project name")>>,
          <<"repository", Describe(ZString, "Repository name or ID")>>,
          <<"searchText", Describe(ZString, "Text to search for in file contents")>>,
          <<"path", Describe(ZOptional(ZString), "Folder path to search in (e.g., \"/src\")")>>,
          <<"branch", Describe(ZOptional(ZString), "Branch to search (default: default branch)")>>,
          <<"fileExtension", Describe(ZOptional(ZString), "Filter by file extension (e.g., \".cs\", \".ts\")")>>,
          <<"top", Describe(ZDefault(ZOptional(ZNumber), JNum(50)), "Max results to return")>>
        >>)],
     [name |-> "get_commits_for_work_item",
      description |-> "Find commits associated with a work item ID (searches commit messages for #ID)",
      inputSchema |->
        ZObject(<<
          <<"project", Describe(ZOptional(ZString), "Project name")>>,
          <<"repository", Describe(ZString, "Repository name or ID")>>,
          <<"workItemId", Describe(ZNumber, "Work item ID to search for")>>,
          <<"top", Describe(ZDefault(ZOptional(ZNumber), JNum(50)), "Max commits to return")>>
        >>)],
     [name |-> "get_prs_for_work_item",
      description |-> "Find pull requests linked to a work item",
      inputSchema |->
        ZObject(<<
          <<"project", Describe(ZOptional(ZString), "Project name")>>,
          <<"repository", Describe(ZString, "Repository name or ID")>>,
          <<"workItemId", Describe(ZNumber, "Work item ID")>>
        >>)] >>

buildTools ==
  << [name |-> "list_builds",
      description |-> "List recent builds with status and results",
      inputSchema |->
        ZObject(<<
          <<"project", Describe(ZOptional(ZString), "Project name")>>,
          <<"definitions", Describe(ZOptional(ZArray(ZNumber)), "Filter by build definition IDs")>>,
          <<"branchName", Describe(ZOptional(ZString), "Filter by branch (e.g., \"refs/heads/main\")")>>,
          <<"statusFilter", Describe(ZOptional(ZEnum(<<"all", "inProgress", "completed", "cancelling", "postponed", "notStarted", "none">>)), "Filter by status")>>,
          <<"resultFilter", Describe(ZOptional(ZEnum(<<"succeeded", "partiallySucceeded", "failed", "canceled", "none">>)), "Filter by result")>>,
          <<"requestedFor", Describe(ZOptional(ZString), "Filter by user who requested the build")>>,
          <<"top", Describe(ZDefault(ZOptional(ZNumber), JNum(25)), "Max builds to return")>>
        >>)],
     [name |-> "get_build",
      description |-> "Get detailed information about a specific build",
      inputSchema |->
        ZObject(<<
          <<"project", Describe(ZOptional(ZString), "Project name")>>,
          <<"buildId", Describe(ZNumber, "Build ID")>>
        >>)],
     [name |-> "get_build_logs",
      description |-> "Get build logs - useful for analyzing build errors and failures",
      inputSchema |->
        ZObject(<<
          <<"project", Describe(ZOptional(ZString), "Project name")>>,
          <<"buildId", Describe(ZNumber, "Build ID")>>,
          <<"logId", Describe(ZOptional(ZNumber), "Specific log ID (omit to get log list first)")>>
        >>)],
     [name |-> "list_build_definitions",
      description |-> "List build/pipeline definitions",
      inputSchema |->
        ZObject(<<
          <<"project", Describe(ZOptional(ZString), "Project name")>>,
          <<"name", Describe(ZOptional(ZString), "Filter by definition name (supports wildcards *)")>>,
          <<"path", Describe(ZOptional(ZString), "Filter by folder path")>>
        >>)],
     [name |-> "analyze_build_errors",
      description |-> "Analyze a failed build and extract errors, warnings, and issues from logs",
      inputSchema |->
        ZObject(<<
          <<"project", Describe(ZOptional(ZString), "Project name")>>,
          <<"buildId", Describe(ZNumber, "Build ID to analyze")>>
        >>)] >>

pipelineTools ==
  << [name |-> "list_pipelines",
      description |-> "List pipeline definitions in a project",
      inputSchema |->
        ZObject(<<
          <<"project", Describe(ZOptional(ZString), "Project name")>>,
          <<"name", Describe(ZOptional(ZString), "Filter by name (supports * wildcard)")>>,
          <<"path", Describe(ZOptional(ZString), "Filter by folder path")>>,
          <<"top", Describe(ZDefault(ZOptional(ZNumber), JNum(50)), "Max pipelines to return")>>
        >>)],
     [name |-> "get_pipeline_runs",
      description |-> "Get recent runs for a pipeline",
      inputSchema |->
        ZObject(<<
          <<"project", Describe(ZOptional(ZString), "Project name")>>,
          <<"pipelineId", Describe(ZNumber, "Pipeline/definition ID")>>,
          <<"branch", Describe(ZOptional(ZString), "Filter by branch")>>,
          <<"top", Describe(ZDefault(ZOptional(ZNumber), JNum(25)), "Max runs to return")>>
        >>)],
     [name |-> "get_pipeline_yaml",
      description |-> "Get the YAML configuration for a pipeline",
      inputSchema |->
        ZObject(<<
          <<"project", Describe(ZOptional(ZString), "Project name")>>,
          <<"pipelineId", Describe(ZNumber, "Pipeline/definition ID")>>
        >>)],
     [name |-> "get_pipeline_variables",
      description |-> "Get variables defined for a pipeline",
      inputSchema |->
        ZObject(<<
          <<"project", Describe(ZOptional(ZString), "Project name")>>,
          <<"pipelineId", Describe(ZNumber, "Pipeline/definition ID")>>
        >>)] >>

workItemTools ==
  << [name |-> "query_work_items",
      description |-> "Query work items using WIQL (Work Item Query Language) or simple filters",
      inputSchema |->
        ZObject(<<
          <<"project", Describe(ZOptional(ZString), "Project name")>>,
          <<"wiql", Describe(ZOptional(ZString), "WIQL query string (if provided, other filters are ignored)")>>,
          <<"workItemType", Describe(ZOptional(ZString), "Filter by type (Bug, Task, User Story, etc.)")>>,
          <<"state", Describe(ZOptional(ZString), "Filter by state (Active, Closed, etc.)")>>,
          <<"assignedTo", Describe(ZOptional(ZString), "Filter by assigned user (use \"@Me\" for current user)")>>,
          <<"areaPath", Describe(ZOptional(ZString), "Filter by area path")>>,
          <<"iterationPath", Describe(ZOptional(ZString), "Filter by iteration path")>>,
          <<"tags", Describe(ZOptional(ZString), "Filter by tag")>>,
          <<"top", Describe(ZDefault(ZOptional(ZNumber), JNum(50)), "Max items to return")>>
        >>)],
     [name |-> "get_work_item",
      description |-> "Get detailed information about a specific work item",
      inputSchema |->
        ZObject(<<
          <<"id", Describe(ZNumber, "Work item ID")>>,
          <<"expand", Describe(ZDefault(ZOptional(ZBoolean), JBool(TRUE)), "Include all fields and relations")>>
        >>)],
     [name |-> "list_work_item_types",
      description |-> "List available work item types in a project",
      inputSchema |->
        ZObject(<<
          <<"project", Describe(ZOptional(ZString), "Project name")>>
        >>)] >>

releaseTools ==
  << [name |-> "list_releases",
      description |-> "List releases with deployment status",
      inputSchema |->
        ZObject(<<
          <<"project", Describe(ZOptional(ZString), "Project name")>>,
          <<"definitionId", Describe(ZOptional(ZNumber), "Filter by release definition ID")>>,
          <<"statusFilter", Describe(ZOptional(ZEnum(<<"active", "draft", "abandoned", "undefined">>)), "Filter by status")>>,
          <<"environmentStatusFilter", Describe(ZOptional(ZNumber), "Filter by environment status")>>,
          <<"top", Describe(ZDefault(ZOptional(ZNumber), JNum(25)), "Max releases to return")>>
        >>)],
     [name |-> "get_release",
      description |-> "Get detailed information about a specific release",
      inputSchema |->
        ZObject(<<
          <<"project", Describe(ZOptional(ZString), "Project name")>>,
          <<"releaseId", Describe(ZNumber, "Release ID")>>
        >>)],
     [name |-> "list_release_definitions",
      description |-> "List release/deployment pipeline definitions",
      inputSchema |->
        ZObject(<<
          <<"project", Describe(ZOptional(ZString), "Project name")>>,
          <<"searchText", Describe(ZOptional(ZString), "Filter by name")>>,
          <<"path", Describe(ZOptional(ZString), "Filter by folder path")>>
        >>)],
     [name |-> "get_release_logs",
      description |-> "Get deployment logs for a release environment",
      inputSchema |->
        ZObject(<<
          <<"project", Describe(ZOptional(ZString), "Project name")>>,
          <<"releaseId", Describe(ZNumber, "Release ID")>>,
          <<"environmentId", Describe(ZNumber, "Environment ID")>>
        >>)] >>

testResultsTools ==
  << [name |-> "list_test_runs",
      description |-> "List test runs for a project - useful for finding test execution history",
      inputSchema |->
        ZObject(<<
          <<"project", Describe(ZOptional(ZString), "Project name")>>,
          <<"buildUri", Describe(ZOptional(ZString), "Filter by build URI")>>,
          <<"top", Describe(ZDefault(ZOptional(ZNumber), JNum(25)), "Max runs to return")>>
        >>)],
     [name |-> "get_test_run",
      description |-> "Get detailed information about a specific test run",
      inputSchema |->
        ZObject(<<
          <<"project", Describe(ZOptional(ZString), "Project name")>>,
          <<"runId", Describe(ZNumber, "Test run ID")>>
        >>)],
     [name |-> "get_test_results",
      description |-> "Get test results from a test run - shows which tests passed/failed",
      inputSchema |->
        ZObject(<<
          <<"project", Describe(ZOptional(ZString), "Project name")>>,
          <<"runId", Describe(ZNumber, "Test run ID")>>,
          <<"top", Describe(ZDefault(ZOptional(ZNumber), JNum(100)), "Max results to return")>>
        >>)],
     [name |-> "get_failed_tests",
      description |-> "Get failed tests from a test run - useful for investigating failures",
      inputSchema |->
        ZObject(<<
          <<"project", Describe(ZOptional(ZString), "Project name")>>,
          <<"runId", Describe(ZNumber, "Test run ID")>>
        >>)],
     [name |-> "get_test_runs_for_build",
      description |-> "Get test runs associated with a specific build",
      inputSchema |->
        ZObject(<<
          <<"project", Describe(ZOptional(ZString), "Project name")>>,
          <<"buildId", Describe(ZNumber, "Build ID")>>
        >>)],
     [name |-> "analyze_test_failures",
      description |-> "Analyze test failures in a build - groups failures by error type",
      inputSchema |->
        ZObject(<<
          <<"project", Describe(ZOptional(ZString), "Project name")>>,
          <<"buildId", Describe(ZNumber, "Build ID to analyze")>>
        >>)] >>

(***************************************************************************)
(* The registry: the object literal that spreads the tables in order.      *)
(* A registry entry is the name and the table whose tool it holds.         *)
(***************************************************************************)
Tables ==
  << [table |-> "projectTools", tools |-> projectTools],
     [table |-> "gitTools", tools |-> gitTools],
     [table |-> "buildTools", tools |-> buildTools],
     [table |-> "workItemTools", tools |-> workItemTools],
     [table |-> "releaseTools", tools |-> releaseTools],
     [table |-> "pipelineTools", tools |-> pipelineTools],
     [table |-> "testResultsTools", tools |-> testResultsTools] >>

\* the position of the entry with this name, 0 if there is none
IndexOfName(entries, n) ==
  IF \E i \in 1..Len(entries) : entries[i].name = n
  THEN CHOOSE i \in 1..Len(entries) :
         /\ entries[i].name = n
         /\ \A j \in (i + 1)..Len(entries) : entries[j].name # n
  ELSE 0

\* the properties that spreading a table writes, in order
TableWrites(table, tools) ==
  [i \in 1..Len(tools) |-> [name |-> tools[i].name, table |-> table]]

OwnKeys(obj) == { obj[i].name : i \in 1..Len(obj) }

SpreadKeepsFirst(obj, w) ==
  LET firsts == SelectSeq([i \in 1..Len(w) |-> i],
                          LAMBDA i : /\ w[i].name \notin OwnKeys(obj)
                                     /\ \A j \in 1..(i - 1) : w[j].name # w[i].name)
  IN  SelectSeq(obj \o [k \in 1..Len(firsts) |-> w[firsts[k]]], LAMBDA e : TRUE)

\* { ...obj, ...w }: a key already in obj keeps its position and takes the
\* value written last; the other keys follow in the order of their first
\* write, each with the value written last
Spread(obj, w) ==
  LET last(n) == w[IndexOfName(w, n)]
      kept == [i \in 1..Len(obj) |->
                 IF IndexOfName(w, obj[i].name) = 0 THEN obj[i] ELSE last(obj[i].name)]
      firsts == SelectSeq([i \in 1..Len(w) |-> i],
                          LAMBDA i : /\ w[i].name \notin OwnKeys(obj)
                                     /\ \A j \in 1..(i - 1) : w[j].name # w[i].name)
      added == [k \in 1..Len(firsts) |-> last(w[firsts[k]].name)]
  IN  SelectSeq(kept \o added, LAMBDA e : TRUE)

allToolsLiteral ==
  Spread(<<>>,
         TableWrites("projectTools", projectTools)
         \o TableWrites("gitTools", gitTools)
         \o TableWrites("buildTools", buildTools)
         \o TableWrites("workItemTools", workItemTools)
         \o TableWrites("releaseTools", releaseTools)
         \o TableWrites("pipelineTools", pipelineTools)
         \o TableWrites("testResultsTools", testResultsTools))

\* the tool a registry entry holds
ToolOf(e) ==
  LET t == CHOOSE t \in 1..Len(Tables) : Tables[t].table = e.table
  IN  Tables[t].tools[IndexOfName(Tables[t].tools, e.name)]

\* the properties every object literal inherits from Object.prototype
ObjectPrototypeKeys ==
  { "constructor", "hasOwnProperty", "isPrototypeOf", "propertyIsEnumerable",
    "toLocaleString", "toString", "valueOf", "__proto__",
    "__defineGetter__", "__defineSetter__", "__lookupGetter__", "__lookupSetter__" }

\* `name in obj`: own properties and the prototype chain
In(n, obj) == n \in OwnKeys(obj) \/ n \in ObjectPrototypeKeys

\* obj[name] for a name that is `in` obj: the own entry, else the member of
\* Object.prototype, which has neither an inputSchema nor a handler property
Lookup(obj, n) ==
  IF n \in OwnKeys(obj)
  THEN [own |-> TRUE, entry |-> obj[IndexOfName(obj, n)]]
  ELSE [own |-> FALSE, entry |-> [name |-> n, table |-> "Object.prototype"]]

(***************************************************************************)
(* The upstream server and the connection.  The server is only read, so    *)
(* the answer to a request is a function of the request: whether an        *)
(* endpoint answers, rejects with an Error or rejects with a bare string   *)
(* is fixed the first time the endpoint is used.                           *)
(***************************************************************************)
Apis == {"getCoreApi", "getReleaseApi"}

Endpoints ==
  {"connection.getCoreApi", "connection.getReleaseApi", "getProjects", "getProject",
   "getRelease", "getTasks", "getReleaseDefinitions"}

Behaviours == {"ok", "error", "string"}

\* what can be thrown: an Error with a message, or any other value
Error(message) == [instanceOfError |-> TRUE, message |-> message, value |-> JUndef]

ThrownValue(v) == [instanceOfError |-> FALSE, message |-> "", value |-> v]

\* what a failing endpoint rejects with
Rejection(endpoint, behaviour) ==
  IF behaviour = "error"
  THEN Error("Failed request: (404) " \o endpoint)
  ELSE ThrownValue(JStr("socket hang up"))

AlphaProject == JObj(<< Prop("id", JStr("p1")), Prop("name", JStr("Alpha")) >>)

DevEnvironment ==
  JObj(<< Prop("id", JNum(1)), Prop("name", JStr("Dev")), Prop("status", JNum(4)) >>)

Release1 ==
  JObj(<< Prop("id", JNum(1)), Prop("name", JStr("Release-1")),
          Prop("environments", JArr(<<DevEnvironment>>)) >>)

DeployTask ==
  JObj(<< Prop("id", JNum(3)), Prop("name", JStr("Deploy")), Prop("status", JStr("succeeded")) >>)

ReleaseDefinition1 ==
  JObj(<< Prop("id", JNum(5)), Prop("name", JStr("Nightly")), Prop("path", JStr("\\")) >>)

\* the content the server answers with
ResponseData(endpoint, params) ==
  CASE endpoint = "getProjects" -> JArr(<<AlphaProject>>)
    [] endpoint = "getProject" ->
         IF params = <<JStr("Alpha")>> THEN AlphaProject ELSE JNull
    [] endpoint = "getRelease" -> Release1
    [] endpoint = "getTasks" -> JArr(<<DeployTask>>)
    [] endpoint = "getReleaseDefinitions" -> JArr(<<ReleaseDefinition1>>)

(***************************************************************************)
(* AzureDevOpsClient                                                       *)
(***************************************************************************)
ProjectRequired ==
  "Project is required. Specify project parameter or set AZURE_DEVOPS_PROJECT environment variable."

\* requireProject(project): p = project || config.defaultProject
requireProject(project, configDefault) ==
  LET p == IF Truthy(project) THEN project ELSE configDefault
  IN  IF ~Truthy(p) THEN [threw |-> TRUE, error |-> Error(ProjectRequired), p |-> JUndef]
      ELSE [threw |-> FALSE, error |-> Error(""), p |-> p]

(***************************************************************************)
(* The handlers of the tools that calls are made to.  A handler runs       *)
(* synchronously from one await to the next; Await, Return and Throw are   *)
(* the three ways such a run ends.                                         *)
(***************************************************************************)
Await(endpoint, params, held) ==
  [kind |-> "await", endpoint |-> endpoint, params |-> params, local |-> held,
   value |-> JUndef, error |-> Error("")]

Return(value) ==
  [kind |-> "return", endpoint |-> "", params |-> <<>>, local |-> JUndef,
   value |-> value, error |-> Error("")]

Throw(error) ==
  [kind |-> "throw", endpoint |-> "", params |-> <<>>, local |-> JUndef,
   value |-> JUndef, error |-> error]

HandledTools == {"list_projects", "get_project", "list_release_definitions", "get_release_logs"}

\* the accessor each handler awaits first
HandlerApi(n) ==
  IF n \in {"list_projects", "get_project"} THEN "getCoreApi" ELSE "getReleaseApi"

RECURSIVE MapItems(_, _)
MapItems(items, keys) ==
  IF items = <<>> THEN <<>>
  ELSE <<JObj([i \in 1..Len(keys) |-> Prop(keys[i], Get(Head(items).v, keys[i]))])>>
       \o MapItems(Tail(items), keys)

\* environments.find(e => e.id === environmentId)
RECURSIVE FindById(_, _)
FindById(items, id) ==
  IF items = <<>> THEN JUndef
  ELSE IF Head(items).v.t = "object" /\ Get(Head(items).v, "id") = id THEN Head(items).v
  ELSE FindById(Tail(items), id)

EnvironmentStatus(status) ==
  IF status.t = "undefined" THEN JUndef
  ELSE CASE status.n = 0 -> JStr("Undefined")
         [] status.n = 1 -> JStr("NotStarted")
         [] status.n = 2 -> JStr("InProgress")
         [] status.n = 4 -> JStr("Succeeded")
         [] status.n = 8 -> JStr("Canceled")
         [] status.n = 16 -> JStr("Rejected")
         [] status.n = 32 -> JStr("Queued")
         [] status.n = 64 -> JStr("Scheduled")
         [] status.n = 128 -> JStr("PartiallySucceeded")
         [] OTHER -> JUndef

\* definitions.map(d => ({...})) of list_release_definitions
DefinitionSummary(d) ==
  JObj(<< Prop("id", Get(d, "id")),
          Prop("name", Get(d, "name")),
          Prop("path", Get(d, "path")),
          Prop("releaseNameFormat", Get(d, "releaseNameFormat")),
          Prop("description", Get(d, "description")),
          Prop("createdBy", Get(Get(d, "createdBy"), "displayName")),
          Prop("createdOn", Get(d, "createdOn")),
          Prop("modifiedBy", Get(Get(d, "modifiedBy"), "displayName")),
          Prop("modifiedOn", Get(d, "modifiedOn")),
          Prop("environments",
               IF Get(d, "environments").t # "array" THEN JUndef
               ELSE JArr(MapItems(Get(d, "environments").items, <<"id", "name", "rank">>))) >>)

\* the handler's code after `await client.get...Api()`
AfterApi(n, a, configDefault) ==
  CASE n = "list_projects" -> Await("getProjects", <<>>, JUndef)
    [] n = "get_project" -> Await("getProject", <<Get(a, "project")>>, JUndef)
    [] n = "list_release_definitions" ->
         LET rp == requireProject(Get(a, "project"), configDefault)
         IN  IF rp.threw THEN Throw(rp.error)
             ELSE Await("getReleaseDefinitions",
                        <<rp.p, Get(a, "searchText"), Get(a, "path")>>, rp.p)
    [] n = "get_release_logs" ->
         LET rp == requireProject(Get(a, "project"), configDefault)
         IN  IF rp.threw THEN Throw(rp.error)
             ELSE Await("getRelease", <<rp.p, Get(a, "releaseId")>>, rp.p)

\* the handler's code after the awaited request `endpoint` answered `data`
AfterFetch(n, endpoint, a, data, held) ==
  CASE n = "list_projects" ->
         Return(JArr(MapItems(data.items,
                  <<"id", "name", "description", "state", "url", "lastUpdateTime">>)))
    [] n = "get_project" ->
         Return(JObj([i \in 1..8 |->
                  LET key == <<"id", "name", "description", "state", "url", "capabilities",
                               "defaultTeam", "lastUpdateTime">>[i]
                  IN  Prop(key, Get(data, key))]))
    [] n = "list_release_definitions" ->
         Return(JArr([i \in 1..Len(data.items) |-> DefinitionSummary(data.items[i].v)]))
    [] n = "get_release_logs" /\ endpoint = "getRelease" ->
         LET environment == FindById(Get(data, "environments").items, Get(a, "environmentId"))
         IN  IF ~Truthy(environment)
             THEN Throw(Error("Environment " \o ToString(Get(a, "environmentId").n)
                              \o " not found in release " \o ToString(Get(a, "releaseId").n)))
             ELSE Await("getTasks", <<held, Get(a, "releaseId"), Get(a, "environmentId")>>,
                        environment)
    [] n = "get_release_logs" /\ endpoint = "getTasks" ->
         Return(JObj(<< Prop("releaseId", Get(a, "releaseId")),
                        Prop("environmentId", Get(a, "environmentId")),
                        Prop("environmentName", Get(held, "name")),
                        Prop("status", EnvironmentStatus(Get(held, "status"))),
                        Prop("tasks", JArr(MapItems(data.items,
                           <<"id", "name", "status", "dateStarted", "dateEnded", "logUrl",
                             "issues">>))) >>))

(***************************************************************************)
(* zodToJsonSchema: the JSON Schema document the tool list carries for a   *)
(* zod schema.                                                             *)
(***************************************************************************)
ZRecord(valueSchema) == [ZBase("ZodRecord") EXCEPT !.inner = <<valueSchema>>]

\* z.any(): a kind zodToJsonSchema has no branch for
ZAny == ZBase("ZodAny")

\* { ...inner, default: v }: default keeps its place if inner has one
WithDefault(inner, v) ==
  IF HasKey(inner, "default")
  THEN JObj([i \in 1..Len(inner.items) |->
               IF inner.items[i].k = "default" THEN Prop("default", v) ELSE inner.items[i]])
  ELSE JObj(inner.items \o <<Prop("default", v)>>)

RequiredKeysButOptional(shape) ==
  LET keys == [i \in 1..Len(shape) |-> shape[i][1]]
      isRequired(i) == shape[i][2].cls # "ZodOptional"
      kept == SelectSeq([i \in 1..Len(shape) |-> i], isRequired)
  IN  [k \in 1..Len(kept) |-> keys[kept[k]]]

\* the keys pushed to `required`: neither a ZodOptional nor a ZodDefault
RequiredKeys(shape) ==
  LET keys == [i \in 1..Len(shape) |-> shape[i][1]]
      isRequired(i) == shape[i][2].cls \notin {"ZodOptional", "ZodDefault"}
      kept == SelectSeq([i \in 1..Len(shape) |-> i], isRequired)
  IN  [k \in 1..Len(kept) |-> keys[kept[k]]]

FallbackWithoutType == JObj(<<>>)

\* the default fallback
Fallback == JObj(<<Prop("type", JStr("object"))>>)

RECURSIVE zodToJsonSchema(_)
zodToJsonSchema(schema) ==
  CASE schema.cls = "ZodObject" ->
         LET required == RequiredKeys(schema.shape)
         IN  JObj(<< Prop("type", JStr("object")),
                     Prop("properties",
                          JObj([i \in 1..Len(schema.shape) |->
                                  Prop(schema.shape[i][1],
                                       zodToJsonSchema(schema.shape[i][2]))])),
                     Prop("required",
                          IF Len(required) > 0
                          THEN JArr([i \in 1..Len(required) |-> JStr(required[i])])
                          ELSE JUndef) >>)
    [] schema.cls = "ZodOptional" -> zodToJsonSchema(schema.inner[1])
    [] schema.cls = "ZodDefault" ->
         WithDefault(zodToJsonSchema(schema.inner[1]), schema.dflt)
    [] schema.cls \in {"ZodString", "ZodNumber", "ZodBoolean"} ->
         JObj(<< Prop("type", JStr(Primitive(schema.cls))),
                 Prop("description", schema.description) >>)
    [] schema.cls = "ZodArray" ->
         JObj(<< Prop("type", JStr("array")),
                 Prop("items", zodToJsonSchema(schema.inner[1])),
                 Prop("description", schema.description) >>)
    [] schema.cls = "ZodEnum" ->
         JObj(<< Prop("type", JStr("string")),
                 Prop("enum", JArr(AsStrings(schema.options))),
                 Prop("description", schema.description) >>)
    [] schema.cls = "ZodRecord" ->
         JObj(<< Prop("type", JStr("object")),
                 Prop("additionalProperties", zodToJsonSchema(schema.inner[1])),
                 Prop("description", schema.description) >>)
    [] OTHER -> Fallback

(***************************************************************************)
(* The tool list (ListToolsRequestSchema handler).                         *)
(***************************************************************************)
\* the literal { ...table1, ...table2, ... } for the imported tables
RegistryOf(tbls) ==
  LET RECURSIVE Writes(_)
      Writes(i) == IF i > Len(tbls) THEN <<>>
                   ELSE TableWrites(tbls[i].table, tbls[i].tools) \o Writes(i + 1)
  IN  Spread(<<>>, Writes(1))

\* the tool a registry entry holds, the registry being built from tbls
ToolIn(tbls, e) ==
  LET t == CHOOSE t \in 1..Len(tbls) : tbls[t].table = e.table
  IN  tbls[t].tools[IndexOfName(tbls[t].tools, e.name)]

ObjectEntriesReversed(obj) == [i \in 1..Len(obj) |-> obj[Len(obj) + 1 - i]]

\* Object.entries(obj): the own properties in insertion order (tool names
\* are identifiers, none is an array index)
ObjectEntries(obj) == obj

EmptyInputSchema ==
  JObj(<<Prop("type", JStr("object")), Prop("properties", JObj(<<>>))>>)

\* the response of tools/list
ListToolsResponse(registry, tbls) ==
  LET entries == ObjectEntries(registry)
  IN  [i \in 1..Len(entries) |->
         LET tool == ToolIn(tbls, entries[i])
         IN  [name |-> entries[i].name,
              description |-> tool.description,
              inputSchema |-> IF "inputSchema" \in DOMAIN tool
                              THEN zodToJsonSchema(tool.inputSchema)
                              ELSE EmptyInputSchema]]

(***************************************************************************)
(* loadConfig and getCollectionUrl.                                        *)
(***************************************************************************)
\* a || b
Or(a, b) == IF Truthy(a) THEN a ELSE b

EndsWith(s, suffix) ==
  Len(s) >= Len(suffix) /\ SubSeq(s, Len(s) - Len(suffix) + 1, Len(s)) = suffix

\* new URL(s) succeeds: a scheme, and for http(s) a host after the slashes
IsUrl(s) ==
  \/ StartsWith(s, "https://") /\ Len(s) > Len("https://")
  \/ StartsWith(s, "http://") /\ Len(s) > Len("http://")

\* ConfigSchema.safeParse(config): the issues as `path: message`
ConfigIssues(config) ==
  (IF IsUrl(config.serverUrl) THEN <<>>
   ELSE <<"serverUrl: AZURE_DEVOPS_URL must be a valid URL">>)
  \o (IF Len(config.pat) >= 1 THEN <<>> ELSE <<"pat: AZURE_DEVOPS_PAT is required">>)

RECURSIVE JoinLines(_)
JoinLines(ls) ==
  IF ls = <<>> THEN ""
  ELSE IF Len(ls) = 1 THEN ls[1] ELSE ls[1] \o "\n" \o JoinLines(Tail(ls))

loadConfig(environment) ==
  LET url == Or(environment.AZURE_DEVOPS_URL, JStr("")).s
      config == [serverUrl |-> IF EndsWith(url, "/") THEN SubSeq(url, 1, Len(url) - 1)
                               ELSE url,
                 pat |-> Or(environment.AZURE_DEVOPS_PAT, JStr("")).s,
                 collection |-> Or(environment.AZURE_DEVOPS_COLLECTION,
                                   JStr("DefaultCollection")).s,
                 defaultProject |-> Or(environment.AZURE_DEVOPS_PROJECT, JUndef)]
      issues == ConfigIssues(config)
  IN  IF issues # <<>>
      THEN [threw |-> TRUE, error |-> Error("Configuration error:\n" \o JoinLines(issues)),
            config |-> config]
      ELSE [threw |-> FALSE, error |-> Error(""), config |-> config]

getCollectionUrl(config) == config.serverUrl \o "/" \o config.collection

\* the accessors and the sub-client methods each handler calls
RequestsOf ==
  [ test_connection |->
      [accessors |-> {"getCoreApi"},
       methods |-> {"getProjects"}],
    list_projects |->
      [accessors |-> {"getCoreApi"},
       methods |-> {"getProjects"}],
    get_project |->
      [accessors |-> {"getCoreApi"},
       methods |-> {"getProject"}],
    list_repos |->
      [accessors |-> {"getGitApi"},
       methods |-> {"getRepositories"}],
    list_branches |->
      [accessors |-> {"getGitApi"},
       methods |-> {"getBranches"}],
    list_commits |->
      [accessors |-> {"getGitApi"},
       methods |-> {"getCommits"}],
    get_commit |->
      [accessors |-> {"getGitApi"},
       methods |-> {"getCommit"}],
    get_commit_diff |->
      [accessors |-> {"getGitApi"},
       methods |-> {"getCommit", "getItemContent"}],
    list_pull_requests |->
      [accessors |-> {"getGitApi"},
       methods |-> {"getPullRequests"}],
    get_pull_request |->
      [accessors |-> {"getGitApi"},
       methods |-> {"getPullRequest", "getThreads"}],
    compare_branches |->
      [accessors |-> {"getGitApi"},
       methods |-> {"getCommitDiffs"}],
    search_code |->
      [accessors |-> {"getGitApi"},
       methods |-> {"getRepository", "getItems", "getItemContent"}],
    get_commits_for_work_item |->
      [accessors |-> {"getGitApi"},
       methods |-> {"getCommits"}],
    get_prs_for_work_item |->
      [accessors |-> {"getGitApi", "getWorkItemTrackingApi"},
       methods |-> {"getWorkItem", "getPullRequest", "getPullRequests"}],
    list_builds |->
      [accessors |-> {"getBuildApi"},
       methods |-> {"getBuilds"}],
    get_build |->
      [accessors |-> {"getBuildApi"},
       methods |-> {"getBuild"}],
    get_build_logs |->
      [accessors |-> {"getBuildApi"},
       methods |-> {"getBuildLogLines", "getBuildLogs"}],
    list_build_definitions |->
      [accessors |-> {"getBuildApi"},
       methods |-> {"getDefinitions"}],
    analyze_build_errors |->
      [accessors |-> {"getBuildApi"},
       methods |-> {"getBuild", "getBuildLogs", "getBuildLogLines"}],
    list_pipelines |->
      [accessors |-> {"getBuildApi"},
       methods |-> {"getDefinitions"}],
    get_pipeline_runs |->
      [accessors |-> {"getBuildApi"},
       methods |-> {"getBuilds"}],
    get_pipeline_yaml |->
      [accessors |-> {"getBuildApi", "getGitApi"},
       methods |-> {"getDefinition", "getItemContent"}],
    get_pipeline_variables |->
      [accessors |-> {"getBuildApi"},
       methods |-> {"getDefinition"}],
    query_work_items |->
      [accessors |-> {"getWorkItemTrackingApi"},
       methods |-> {"queryByWiql", "getWorkItems"}],
    get_work_item |->
      [accessors |-> {"getWorkItemTrackingApi"},
       methods |-> {"getWorkItem"}],
    list_work_item_types |->
      [accessors |-> {"getWorkItemTrackingApi"},
       methods |-> {"getWorkItemTypes"}],
    list_releases |->
      [accessors |-> {"getReleaseApi"},
       methods |-> {"getReleases"}],
    get_release |->
      [accessors |-> {"getReleaseApi"},
       methods |-> {"getRelease"}],
    list_release_definitions |->
      [accessors |-> {"getReleaseApi"},
       methods |-> {"getReleaseDefinitions"}],
    get_release_logs |->
      [accessors |-> {"getReleaseApi"},
       methods |-> {"getRelease", "getTasks"}],
    list_test_runs |->
      [accessors |-> {"getTestApi"},
       methods |-> {"getTestRuns"}],
    get_test_run |->
      [accessors |-> {"getTestApi"},
       methods |-> {"getTestRunById"}],
    get_test_results |->
      [accessors |-> {"getTestApi"},
       methods |-> {"getTestResults"}],
    get_failed_tests |->
      [accessors |-> {"getTestApi"},
       methods |-> {"getTestResults"}],
    get_test_runs_for_build |->
      [accessors |-> {"getTestApi", "getBuildApi"},
       methods |-> {"getBuild", "getTestRuns"}],
    analyze_test_failures |->
      [accessors |-> {"getTestApi", "getBuildApi"},
       methods |-> {"getBuild", "getTestRuns", "getTestResults"}] ]

\* a sub-client method that only reads: the get... methods issue GET
\* requests, queryByWiql posts a query
IsRead(method) == StartsWith(method, "get") \/ StartsWith(method, "query")

EffectOfWrite(endpoint, state) == state + 1

\* what a request does to the state of the Azure DevOps server
Effect(endpoint, state) ==
  LET method == IF StartsWith(endpoint, "connection.")
                THEN SubSeq(endpoint, Len("connection.") + 1, Len(endpoint))
                ELSE endpoint
  IN  IF IsRead(method) THEN state ELSE state + 1

(***************************************************************************)
(* The inputs the start of the server is explored with: environments, and  *)
(* tool tables whose tools declare one field with a schema of bounded      *)
(* nesting.                                                                *)
(***************************************************************************)
MaxDepth == 2

MaxTables == 3

TableNames ==
  <<"projectTools", "gitTools", "buildTools", "workItemTools", "releaseTools",
    "pipelineTools", "testResultsTools">>

OperationNames == {"list_items", "get_item"}

SchemaLeaves == {ZString, ZNumber, ZBoolean, ZEnum(<<"asc", "desc">>), ZAny}

\* a value the schema accepts, as a .default(...) of it must be
RECURSIVE DefaultFor(_)
DefaultFor(schema) ==
  CASE schema.cls = "ZodString" -> JStr("main")
    [] schema.cls = "ZodNumber" -> JNum(25)
    [] schema.cls = "ZodBoolean" -> JBool(TRUE)
    [] schema.cls = "ZodEnum" -> JStr(schema.options[1])
    [] schema.cls = "ZodArray" -> JArr(<<>>)
    [] schema.cls = "ZodRecord" -> JObj(<<>>)
    [] schema.cls = "ZodObject" ->
         JObj([i \in 1..Len(schema.shape) |->
                 Prop(schema.shape[i][1], DefaultFor(schema.shape[i][2]))])
    [] schema.cls \in {"ZodOptional", "ZodDefault"} -> DefaultFor(schema.inner[1])
    [] OTHER -> JNum(25)

RECURSIVE SchemaTrees(_)
SchemaTrees(depth) ==
  IF depth = 0 THEN SchemaLeaves
  ELSE LET S == SchemaTrees(depth - 1)
       IN  S \cup { ZOptional(t) : t \in S }
             \cup { ZDefault(t, DefaultFor(t)) : t \in S }
             \cup { ZArray(t) : t \in S }
             \cup { ZRecord(t) : t \in S }
             \cup { Describe(t, "About the field") : t \in S }
             \cup { ZObject(<< <<"inner", t>> >>) : t \in S }

DrawnTool(n, i, fieldSchema) ==
  [name |-> n,
   description |-> "Declared by " \o TableNames[i],
   inputSchema |-> ZObject(<< <<"field", fieldSchema>> >>)]

\* what ./tools/index.js exports: the tables of the program, or tables that
\* declare the operations `names`, one each, with a field of schema `field`
ProgramImports == [names |-> <<>>, field |-> ZAny]

DrawnImports ==
  { [names |-> names, field |-> t] :
      names \in [1..MaxTables -> OperationNames], t \in SchemaTrees(MaxDepth) }

TablesOf(imported) ==
  IF imported.names = <<>> THEN Tables
  ELSE [i \in 1..Len(imported.names) |->
          [table |-> TableNames[i],
           tools |-> <<DrawnTool(imported.names[i], i, imported.field)>>]]

Environment(url, pat, project) ==
  [AZURE_DEVOPS_URL |-> url, AZURE_DEVOPS_PAT |-> pat,
   AZURE_DEVOPS_COLLECTION |-> JUndef, AZURE_DEVOPS_PROJECT |-> project]

Environments ==
  { Environment(url, pat, project) :
      url \in {JUndef, JStr("tfs.example.com"), JStr("https://tfs.example.com/tfs/"),
               JStr("https://tfs.example.com/tfs"),
               JStr("http://tfs:8080/tfs/DefaultCollection"),
               JStr("http://tfs:8080/tfs/DefaultCollection/")},
      pat \in {JUndef, JStr(""), JStr("token")},
      project \in {JUndef, JStr("Alpha")} }

\* an environment the server starts with
GoodEnvironment(project) ==
  Environment(JStr("https://tfs.example.com/tfs"), JStr("token"), project)

(***************************************************************************)
(* The tool call handler of the server (CallToolRequestSchema).            *)
(***************************************************************************)
Envelope(isError, text) == [isError |-> isError, text |-> text]

UnknownToolEnvelope(n) == Envelope(TRUE, "Unknown tool: " \o n)

InvalidArgumentsEnvelope(message) == Envelope(TRUE, "Invalid arguments: " \o message)

ResultEnvelopeWrapped(result) ==
  Envelope(FALSE, JSONstringify(JObj(<<Prop("result", result)>>)))

\* the success envelope carries no isError flag
ResultEnvelope(result) == Envelope(FALSE, JSONstringify(result))

\* String(value)
String(v) ==
  CASE v.t = "string" -> v.s
    [] v.t = "number" -> ToString(v.n)
    [] v.t = "boolean" -> IF v.n = 1 THEN "true" ELSE "false"
    [] v.t = "undefined" -> "undefined"
    [] v.t = "null" -> "null"
    [] v.t = "object" -> "[object Object]"

ErrorMessageOfErrorsOnly(error) ==
  IF error.instanceOfError THEN error.message ELSE "Unknown error"

\* error instanceof Error ? error.message : String(error)
ErrorMessage(error) == IF error.instanceOfError THEN error.message ELSE String(error.value)

ErrorEnvelope(n, error) ==
  Envelope(TRUE, "Error executing " \o n \o ": " \o ErrorMessage(error))

Uncaught(n, error) == [crashed |-> TRUE, envelopes |-> <<>>]

\* where a fault raised inside the try block ends: in the catch clause,
\* which returns the error envelope
Caught(n, error) == [crashed |-> FALSE, envelopes |-> <<ErrorEnvelope(n, error)>>]

\* the value handed to safeParse: args, not `args || {}`
ParsedInput(a) == a

IgnoresValidation(hasSchema, success) == TRUE

\* the handler is invoked unless validation made the call return early
PassesValidation(hasSchema, success) == ~hasSchema \/ success

SharedSlot(c) == 1

\* the slot that holds the validated arguments of call c: a `let` of the
\* invocation, one per call
ArgsSlot(c) == c

RegistryDropsFailed(registry, n, failed) ==
  IF failed THEN SelectSeq(registry, LAMBDA e : e.name # n) ELSE registry

\* what a call does to the registry: nothing
RegistryAfterCall(registry, n, failed) == registry

(***************************************************************************)
(* State                                                                   *)
(***************************************************************************)
VARIABLES
  allTools,        \* the registry
  defaultProject,  \* config.defaultProject
  cache,           \* the facade's cached sub-client per accessor, 0 if unset
  upstream,        \* behaviour of each endpoint, "unknown" until first used
  pc,              \* where each call is
  name,            \* request.params.name of each call
  args,            \* request.params.arguments of each call (undefined if absent)
  validatedArgs,   \* validatedArgs, per slot
  api,             \* the sub-client the handler of each call got from its accessor
  pending,         \* the upstream request each call awaits
  local,           \* the handler's locals (project, environment)
  envelopes,       \* the envelopes each call has returned to the transport
  crashed,         \* the calls whose fault escaped the request handler
  trace,           \* what each call has done so far
  server,          \* the state of the Azure DevOps server, as a version
  env,             \* process.env
  imports,         \* what ./tools/index.js exports
  step,            \* where main() is
  exitCode,        \* the status the process exited with, -1 while it runs
  client,          \* whether the AzureDevOpsClient has been constructed
  handlers,        \* the request handlers registered on the server
  listed,          \* the last response to tools/list, <<>> if none
  run              \* the handler invocation followed through its requests

startupVars == <<env, imports, step, exitCode, client, handlers, listed>>

\* the imported tool tables
tables == TablesOf(imports)

\* the URL the constructor of the client hands to the connection
collectionUrl == getCollectionUrl(loadConfig(env).config)

vars ==
  <<allTools, defaultProject, cache, upstream, pc, name, args, validatedArgs, api,
    pending, local, envelopes, crashed, trace, server, startupVars, run>>

NoRequest == [endpoint |-> "", params |-> <<>>]

NoTrace ==
  [lookup |-> "none", validation |-> "none", handlerCalls |-> 0, accessorCalls |-> 0,
   requests |-> 0, result |-> JUndef, thrown |-> Error(""), outcome |-> "none"]

\* the requests calls are made with: a name and the arguments (undefined
\* when the request carries none)
Request(n, a) == [name |-> n, arguments |-> a]

LogsArgs(releaseId, environmentId) ==
  JObj(<<Prop("releaseId", releaseId), Prop("environmentId", environmentId)>>)

CallInputs ==
  { Request("nonexistent_tool", JObj(<<>>)),
    Request("nonexistent_tool", JUndef),
    Request("toString", JObj(<<>>)),
    Request("list_projects", JUndef),
    Request("list_projects", JObj(<<>>)),
    Request("get_project", JUndef),
    Request("get_project", JObj(<<>>)),
    Request("get_project", JObj(<<Prop("project", JNum(7))>>)),
    Request("get_project", JObj(<<Prop("project", JStr("Alpha"))>>)),
    Request("get_project", JObj(<<Prop("project", JStr("Beta"))>>)),
    Request("list_release_definitions", JUndef),
    Request("list_release_definitions", JObj(<<>>)),
    Request("list_release_definitions", JObj(<<Prop("project", JStr(""))>>)),
    Request("get_release_logs", LogsArgs(JNum(1), JNum(1))),
    Request("get_release_logs", LogsArgs(JNum(1), JNum(2))),
    Request("get_release_logs", LogsArgs(JStr("1"), JUndef)) }

\* no handler is being followed
NotInvoked ==
  [tool |-> "", args |-> JUndef, state |-> "idle", issued |-> <<>>, answers |-> <<>>,
   value |-> JUndef, error |-> Error("")]

\* no call has arrived yet
NoCalls ==
  /\ cache = [a \in Apis |-> 0]
  /\ upstream = [e \in Endpoints |-> "unknown"]
  /\ pc = [c \in Calls |-> "idle"]
  /\ name = [c \in Calls |-> ""]
  /\ args = [c \in Calls |-> JUndef]
  /\ validatedArgs = [c \in Calls |-> JUndef]
  /\ api = [c \in Calls |-> 0]
  /\ pending = [c \in Calls |-> NoRequest]
  /\ local = [c \in Calls |-> JUndef]
  /\ envelopes = [c \in Calls |-> <<>>]
  /\ crashed = {}
  /\ trace = [c \in Calls |-> NoTrace]
  /\ server = 0
  /\ run = NotInvoked

\* main() has run with a well-formed configuration: the server is connected
Init ==
  /\ allTools = allToolsLiteral
  /\ defaultProject \in {JUndef, JStr("Alpha")}
  /\ NoCalls
  /\ env = GoodEnvironment(defaultProject)
  /\ imports = ProgramImports
  /\ step = "serving"
  /\ exitCode = -1
  /\ client = TRUE
  /\ handlers = {"tools/list", "tools/call"}
  /\ listed = <<>>

(***************************************************************************)
(* Steps of a call.  Settle ends the call with an envelope; Fail is a      *)
(* fault raised inside the try block; Proceed takes the handler from the   *)
(* end of one synchronous run to its next await, its return or its throw.  *)
(***************************************************************************)
Settle(c, n, envelope, t, failed) ==
  /\ pc' = [pc EXCEPT ![c] = "done"]
  /\ envelopes' = [envelopes EXCEPT ![c] = Append(@, envelope)]
  /\ crashed' = crashed
  /\ trace' = [trace EXCEPT ![c] = t]
  /\ pending' = [pending EXCEPT ![c] = NoRequest]
  /\ local' = [local EXCEPT ![c] = JUndef]
  /\ allTools' = RegistryAfterCall(allTools, n, failed)

Fail(c, n, error, t) ==
  LET r == Caught(n, error)
  IN  /\ pc' = [pc EXCEPT ![c] = "done"]
      /\ envelopes' = [envelopes EXCEPT ![c] = @ \o r.envelopes]
      /\ crashed' = IF r.crashed THEN crashed \cup {c} ELSE crashed
      /\ trace' = [trace EXCEPT ![c] = [t EXCEPT !.thrown = error, !.outcome = "threw"]]
      /\ pending' = [pending EXCEPT ![c] = NoRequest]
      /\ local' = [local EXCEPT ![c] = JUndef]
      /\ allTools' = RegistryAfterCall(allTools, n, TRUE)

Proceed(c, n, out, t) ==
  CASE out.kind = "await" ->
         /\ pc' = [pc EXCEPT ![c] = "awaitFetch"]
         /\ pending' = [pending EXCEPT ![c] = [endpoint |-> out.endpoint, params |-> out.params]]
         /\ local' = [local EXCEPT ![c] = out.local]
         /\ trace' = [trace EXCEPT ![c] = [t EXCEPT !.requests = @ + 1]]
         /\ UNCHANGED <<envelopes, crashed, allTools>>
    [] out.kind = "return" ->
         Settle(c, n, ResultEnvelope(out.value),
                [t EXCEPT !.result = out.value, !.outcome = "returned"], FALSE)
    [] out.kind = "throw" -> Fail(c, n, out.error, t)

(***************************************************************************)
(* A request arrives: lookup, validation and the handler's synchronous     *)
(* start, up to the accessor it awaits first.                              *)
(***************************************************************************)
CallTool(c, n, a) ==
  /\ step = "serving" /\ "tools/call" \in handlers
  /\ pc[c] = "idle"
  /\ \A d \in Calls : d < c => pc[d] # "idle"
  /\ name' = [name EXCEPT ![c] = n]
  /\ args' = [args EXCEPT ![c] = a]
  /\ UNCHANGED <<defaultProject, upstream, server, startupVars, run>>
  /\ IF ~In(n, allTools)
     THEN /\ Settle(c, n, UnknownToolEnvelope(n),
                    [NoTrace EXCEPT !.lookup = "unknown", !.outcome = "unknown"], TRUE)
          /\ UNCHANGED <<validatedArgs, api, cache>>
     ELSE LET tool == Lookup(allTools, n)
              hasSchema == tool.own
              parseResult == IF hasSchema
                             THEN safeParse(ToolOf(tool.entry).inputSchema, ParsedInput(a))
                             ELSE safeParse(ZObject(<<>>), JObj(<<>>))
              t1 == [NoTrace EXCEPT !.lookup = "found",
                       !.validation = IF ~hasSchema THEN "skipped"
                                      ELSE IF parseResult.success THEN "ok" ELSE "failed"]
          IN  IF ~PassesValidation(hasSchema, parseResult.success)
              THEN /\ Settle(c, n, InvalidArgumentsEnvelope(ZodErrorMessage(parseResult)),
                             [t1 EXCEPT !.outcome = "invalid"], TRUE)
                   /\ UNCHANGED <<validatedArgs, api, cache>>
              ELSE /\ validatedArgs' =
                        [validatedArgs EXCEPT ![ArgsSlot(c)] =
                           IF hasSchema THEN parseResult.data
                           ELSE IF Truthy(a) THEN a ELSE JObj(<<>>)]
                   /\ IF ~tool.own
                      THEN /\ Fail(c, n, Error("tool.handler is not a function"), t1)
                           /\ UNCHANGED <<api, cache>>
                      ELSE LET x == HandlerApi(n)
                               t2 == [t1 EXCEPT !.handlerCalls = @ + 1, !.accessorCalls = @ + 1]
                           IN  /\ UNCHANGED <<envelopes, crashed, allTools, local, cache>>
                               /\ IF cache[x] # 0
                                  THEN /\ pc' = [pc EXCEPT ![c] = "awaitApi"]
                                       /\ api' = [api EXCEPT ![c] = cache[x]]
                                       /\ pending' = pending
                                       /\ trace' = [trace EXCEPT ![c] = t2]
                                  ELSE /\ pc' = [pc EXCEPT ![c] = "awaitInit"]
                                       /\ api' = api
                                       /\ pending' = [pending EXCEPT ![c] =
                                            [endpoint |-> "connection." \o x, params |-> <<>>]]
                                       /\ trace' = [trace EXCEPT ![c] =
                                                      [t2 EXCEPT !.requests = @ + 1]]

\* how the endpoint behaves for this request
Behaves(e, b) == IF upstream[e] = "unknown" THEN b \in Behaviours ELSE b = upstream[e]

(***************************************************************************)
(* connection.get...Api() settles for a call that found the cache empty:   *)
(* the accessor stores the new sub-client and returns it, and the handler  *)
(* runs on to its first request.                                           *)
(***************************************************************************)
ConnectionResponds(c) ==
  /\ pc[c] = "awaitInit"
  /\ \E b \in Behaviours :
       LET e == pending[c].endpoint
           x == HandlerApi(name[c])
       IN  /\ Behaves(e, b)
           /\ upstream' = [upstream EXCEPT ![e] = b]
           /\ server' = Effect(e, server)
           /\ UNCHANGED <<defaultProject, name, args, validatedArgs, startupVars, run>>
           /\ IF b = "ok"
              THEN /\ cache' = [cache EXCEPT ![x] = c]
                   /\ api' = [api EXCEPT ![c] = c]
                   /\ Proceed(c, name[c],
                              AfterApi(name[c], validatedArgs[ArgsSlot(c)], defaultProject),
                              trace[c])
              ELSE /\ UNCHANGED <<cache, api>>
                   /\ Fail(c, name[c], Rejection(e, b), trace[c])

(***************************************************************************)
(* The accessor had a cached sub-client: the handler resumes with it.      *)
(***************************************************************************)
CachedAccessorResumes(c) ==
  /\ pc[c] = "awaitApi"
  /\ UNCHANGED <<defaultProject, name, args, validatedArgs, cache, api, upstream, server,
                 startupVars, run>>
  /\ Proceed(c, name[c], AfterApi(name[c], validatedArgs[ArgsSlot(c)], defaultProject),
             trace[c])

(***************************************************************************)
(* The upstream answers the request a handler awaits.                      *)
(***************************************************************************)
UpstreamResponds(c) ==
  /\ pc[c] = "awaitFetch"
  /\ \E b \in Behaviours :
       LET e == pending[c].endpoint
       IN  /\ Behaves(e, b)
           /\ upstream' = [upstream EXCEPT ![e] = b]
           /\ server' = Effect(e, server)
           /\ UNCHANGED <<defaultProject, name, args, validatedArgs, cache, api, startupVars, run>>
           /\ IF b = "ok"
              THEN Proceed(c, name[c],
                           AfterFetch(name[c], e, validatedArgs[ArgsSlot(c)],
                                      ResponseData(e, pending[c].params), local[c]),
                           trace[c])
              ELSE Fail(c, name[c], Rejection(e, b), trace[c])

Next ==
  \/ \E c \in Calls, r \in CallInputs : CallTool(c, r.name, r.arguments)
  \/ \E c \in Calls : ConnectionResponds(c)
  \/ \E c \in Calls : CachedAccessorResumes(c)
  \/ \E c \in Calls : UpstreamResponds(c)

Spec == Init /\ [][Next]_vars


(***************************************************************************)
(* The start of the process: the registry literal is evaluated when the    *)
(* module loads, then main() loads the configuration, constructs the       *)
(* client, registers the two request handlers and connects the transport.  *)
(***************************************************************************)
callVars ==
  <<cache, upstream, pc, name, args, validatedArgs, api, pending, local, envelopes,
    crashed, trace, server>>

StartupInit ==
  /\ \/ env \in Environments /\ imports = ProgramImports
     \/ env = GoodEnvironment(JUndef) /\ imports \in DrawnImports
  /\ allTools = RegistryOf(tables)
  /\ defaultProject = JUndef
  /\ NoCalls
  /\ step = "main"
  /\ exitCode = -1
  /\ client = FALSE
  /\ handlers = {}
  /\ listed = <<>>

ContinuesOnConfigurationError == [step |-> "configured", exitCode |-> -1]

\* the catch clause of main(): process.exit(1)
OnConfigurationError == [step |-> "exited", exitCode |-> 1]

\* config = loadConfig()
LoadConfig ==
  /\ step = "main"
  /\ LET r == loadConfig(env)
     IN  IF r.threw
         THEN /\ step' = OnConfigurationError.step
              /\ exitCode' = OnConfigurationError.exitCode
              /\ UNCHANGED defaultProject
         ELSE /\ step' = "configured"
              /\ defaultProject' = r.config.defaultProject
              /\ UNCHANGED exitCode
  /\ UNCHANGED <<allTools, callVars, run, env, imports, client, handlers, listed>>

\* new AzureDevOpsClient(config)
ConstructClient ==
  /\ step = "configured"
  /\ client' = TRUE
  /\ step' = "constructed"
  /\ UNCHANGED <<allTools, defaultProject, callVars, run, env, imports, exitCode, handlers, listed>>

\* server.setRequestHandler(ListToolsRequestSchema, ...)
RegisterListTools ==
  /\ step = "constructed"
  /\ handlers' = handlers \cup {"tools/list"}
  /\ step' = "listRegistered"
  /\ UNCHANGED <<allTools, defaultProject, callVars, run, env, imports, exitCode, client, listed>>

\* server.setRequestHandler(CallToolRequestSchema, ...)
RegisterCallTool ==
  /\ step = "listRegistered"
  /\ handlers' = handlers \cup {"tools/call"}
  /\ step' = "callRegistered"
  /\ UNCHANGED <<allTools, defaultProject, callVars, run, env, imports, exitCode, client, listed>>

\* await server.connect(transport)
Connect ==
  /\ step = "callRegistered"
  /\ step' = "serving"
  /\ UNCHANGED <<allTools, defaultProject, callVars, run, env, imports, exitCode, client, handlers,
                 listed>>

\* a tools/list request is answered
ListTools ==
  /\ step = "serving" /\ "tools/list" \in handlers
  /\ listed' = ListToolsResponse(allTools, tables)
  /\ UNCHANGED <<allTools, defaultProject, callVars, run, env, imports, step, exitCode, client,
                 handlers>>

StartupNext ==
  \/ LoadConfig
  \/ ConstructClient
  \/ RegisterListTools
  \/ RegisterCallTool
  \/ Connect
  \/ ListTools

Startup == StartupInit /\ [][StartupNext]_vars

(***************************************************************************)
(* Properties of the dispatcher and of the facade                          *)
(***************************************************************************)
\* the operation names the domain tables declare
DeclaredNames ==
  UNION { { Tables[t].tools[i].name : i \in 1..Len(Tables[t].tools) } : t \in 1..Len(Tables) }

\* the parameter schema of a declared operation
SchemaOf(n) == ToolOf(allToolsLiteral[IndexOfName(allToolsLiteral, n)]).inputSchema

\* the declared fields that the arguments get wrong: missing though
\* required, or of the wrong kind
OffendingFields(schema, a) ==
  { schema.shape[i][1] : i \in
      { j \in 1..Len(schema.shape) :
          Parse(schema.shape[j][2], Get(a, schema.shape[j][1]), <<>>).issues # <<>> } }

Started(c) == pc[c] # "idle"

Done(c) == pc[c] = "done"

\* the text of the one envelope a finished call returned
Text(c) == envelopes[c][1].text

\* C1: a call whose name no domain table declares returns the error
\* envelope "Unknown tool: <name>", and neither validation nor a handler
\* nor a facade accessor runs for it.
C1_UnknownNameIsUnknownTool ==
  \A c \in Calls :
    (Done(c) /\ name[c] \notin DeclaredNames) =>
      /\ envelopes[c] = <<[isError |-> TRUE, text |-> "Unknown tool: " \o name[c]]>>
      /\ trace[c].validation = "none"
      /\ trace[c].handlerCalls = 0
      /\ trace[c].accessorCalls = 0

\* C2: a call to a registered operation whose arguments miss a required
\* field or give a field the wrong kind returns an error envelope whose
\* text starts with "Invalid arguments: " and names each offending field.
C2_InvalidArgumentsNameTheField ==
  \A c \in Calls :
    (Done(c) /\ name[c] \in DeclaredNames
       /\ OffendingFields(SchemaOf(name[c]), args[c]) # {}) =>
      /\ Len(envelopes[c]) = 1
      /\ envelopes[c][1].isError
      /\ StartsWith(Text(c), "Invalid arguments: ")
      /\ \A f \in OffendingFields(SchemaOf(name[c]), args[c]) :
           Contains(Text(c), "\"" \o f \o "\"")

\* C3: when the handler of a registered operation called with valid
\* arguments returns v, the call returns the success envelope (no error
\* flag) whose text is the JSON serialisation of v and nothing else.
C3_ResultIsSerialisedAsIs ==
  \A c \in Calls :
    (Done(c) /\ trace[c].outcome = "returned") =>
      /\ trace[c].validation = "ok"
      /\ envelopes[c] = <<[isError |-> FALSE, text |-> JSONstringify(trace[c].result)]>>
      /\ (name[c] = "list_projects" =>
            Text(c) = "[\n  {\n    \"id\": \"p1\",\n    \"name\": \"Alpha\"\n  }\n]")
      /\ (name[c] = "get_project" /\ Get(args[c], "project") = JStr("Beta") =>
            Text(c) = "{}")

C3_Witness ==
  \E c \in Calls :
    /\ Done(c) /\ trace[c].outcome = "returned" /\ name[c] = "get_release_logs"
    /\ Contains(Text(c), "\"environmentName\": \"Dev\"")

\* C4: when the handler of a registered operation called with valid
\* arguments raises an error with message m, the call returns the error
\* envelope "Error executing <name>: m".
C4_HandlerErrorIsWrapped ==
  \A c \in Calls :
    (Done(c) /\ trace[c].handlerCalls = 1 /\ trace[c].outcome = "threw") =>
      LET m == IF trace[c].thrown.instanceOfError THEN trace[c].thrown.message
               ELSE trace[c].thrown.value.s
      IN  /\ envelopes[c] =
               <<[isError |-> TRUE, text |-> "Error executing " \o name[c] \o ": " \o m]>>
          /\ Contains(Text(c), name[c])
          /\ Contains(Text(c), m)

C4_Witness ==
  /\ \E c \in Calls :
       /\ Done(c) /\ trace[c].outcome = "threw"
       /\ Text(c) = "Error executing get_release_logs: Environment 2 not found in release 1"
  /\ \E c \in Calls :
       /\ Done(c) /\ trace[c].outcome = "threw" /\ trace[c].handlerCalls = 1
       /\ ~trace[c].thrown.instanceOfError

\* C5: every call ends with exactly one envelope: no fault escapes the
\* request handler, a finished call has returned one envelope and an
\* unfinished one none, and a call in flight waits for an accessor or for an
\* upstream request whose settling takes it further.
C5_AlwaysOneEnvelope ==
  \A c \in Calls :
    /\ c \notin crashed
    /\ Len(envelopes[c]) = IF Done(c) THEN 1 ELSE 0
    /\ (Started(c) /\ ~Done(c) =>
          /\ pc[c] \in {"awaitInit", "awaitApi", "awaitFetch"}
          /\ (pc[c] # "awaitApi" => pending[c].endpoint \in Endpoints))

C5_Witness ==
  /\ \E c \in Calls :
       Done(c) /\ trace[c].outcome = "threw" /\ ~trace[c].thrown.instanceOfError
         /\ Len(envelopes[c]) = 1
  /\ \E c \in Calls :
       Done(c) /\ name[c] \notin DeclaredNames /\ args[c] = JUndef /\ Len(envelopes[c]) = 1

\* C6: absent arguments are validated as the empty mapping: for an
\* operation that accepts the empty mapping, a call without arguments
\* passes validation and its handler is invoked.
C6_AbsentArgumentsAreEmpty ==
  \A c \in Calls :
    (Started(c) /\ name[c] \in DeclaredNames /\ args[c] = JUndef
       /\ safeParse(SchemaOf(name[c]), JObj(<<>>)).success) =>
      /\ trace[c].validation = "ok"
      /\ trace[c].handlerCalls = 1

\* C7: in a call, lookup comes before validation and validation before the
\* handler: a handler, an accessor or an upstream request runs only in a
\* call whose arguments passed validation, and a handler runs at most once.
C7_HandlerOnlyAfterValidation ==
  \A c \in Calls :
    /\ trace[c].handlerCalls <= 1
    /\ trace[c].accessorCalls <= trace[c].handlerCalls
    /\ (trace[c].validation # "none" => trace[c].lookup = "found")
    /\ (trace[c].handlerCalls = 1 => trace[c].validation = "ok")
    /\ (trace[c].requests > 0 => trace[c].handlerCalls = 1)
    /\ (trace[c].outcome \in {"unknown", "invalid"} => trace[c].requests = 0)

C7_Witness ==
  /\ \E c \in Calls :
       Done(c) /\ trace[c].validation = "ok" /\ trace[c].handlerCalls = 1
         /\ trace[c].requests = 3
  /\ \E c \in Calls : Done(c) /\ trace[c].validation = "failed"

\* what lookup and validation of a call give on the registry as built
FreshLookup(n) == IF In(n, allToolsLiteral) THEN "found" ELSE "unknown"

FreshValidation(n, a) ==
  IF ~In(n, allToolsLiteral) THEN "none"
  ELSE IF n \notin OwnKeys(allToolsLiteral) THEN "skipped"
  ELSE IF safeParse(SchemaOf(n), a).success THEN "ok" ELSE "failed"

\* C8: calls leave the registry as it was built, whatever their outcome,
\* and every call is looked up and validated as on the registry as built;
\* a failed initialisation leaves nothing in the facade's cache.
C8_NoPoisonedState ==
  /\ allTools = allToolsLiteral
  /\ \A c \in Calls :
       Started(c) =>
         /\ trace[c].lookup = FreshLookup(name[c])
         /\ trace[c].validation = FreshValidation(name[c], args[c])
  /\ \A x \in Apis : cache[x] # 0 => upstream["connection." \o x] = "ok"

C8_Witness ==
  \E c, d \in Calls :
    /\ c < d /\ Done(c) /\ Done(d) /\ name[c] = name[d]
    /\ trace[c].outcome = "threw" /\ trace[c].requests = 2
    /\ trace[d].outcome = "returned"

\* C9: an accessor returns the same sub-client to every call, also to two
\* calls that reach it before its first initialisation has completed.
C9_AccessorReturnsOneInstance ==
  \A c, d \in Calls :
    (api[c] # 0 /\ api[d] # 0 /\ HandlerApi(name[c]) = HandlerApi(name[d])) =>
      api[c] = api[d]

\* the envelope of a call that runs alone, from the facade as constructed,
\* against the upstream behaviour up
RECURSIVE RunAlone(_, _, _, _)
RunAlone(n, v, out, up) ==
  CASE out.kind = "return" -> ResultEnvelope(out.value)
    [] out.kind = "throw" -> ErrorEnvelope(n, out.error)
    [] out.kind = "await" ->
         IF up[out.endpoint] = "ok"
         THEN RunAlone(n, v, AfterFetch(n, out.endpoint, v,
                                        ResponseData(out.endpoint, out.params), out.local), up)
         ELSE ErrorEnvelope(n, Rejection(out.endpoint, up[out.endpoint]))

AloneEnvelope(n, a, configDefault, up) ==
  IF ~In(n, allToolsLiteral) THEN UnknownToolEnvelope(n)
  ELSE IF n \notin OwnKeys(allToolsLiteral)
  THEN ErrorEnvelope(n, Error("tool.handler is not a function"))
  ELSE LET r == safeParse(SchemaOf(n), a)
           e == "connection." \o HandlerApi(n)
       IN  IF ~r.success THEN InvalidArgumentsEnvelope(ZodErrorMessage(r))
           ELSE IF up[e] # "ok" THEN ErrorEnvelope(n, Rejection(e, up[e]))
           ELSE RunAlone(n, r.data, AfterApi(n, r.data, configDefault), up)

\* C10: concurrent calls do not interfere: whatever the interleaving, a
\* finished call has returned the envelope it returns when it runs alone
\* against the same upstream.
C10_ConcurrentCallsDoNotInterfere ==
  \A c \in Calls :
    Done(c) => envelopes[c] = <<AloneEnvelope(name[c], args[c], defaultProject, upstream)>>

C10_Witness ==
  \E c, d \in Calls :
    /\ c # d /\ Done(c) /\ Done(d)
    /\ HandlerApi(name[c]) = HandlerApi(name[d])
    /\ api[c] # 0 /\ api[d] # 0 /\ api[c] # api[d]
    /\ trace[c].outcome = "returned" /\ trace[d].outcome = "returned"
    /\ validatedArgs[c] # validatedArgs[d]

(***************************************************************************)
(* Properties of requireProject, of the registry, of the tool list and of  *)
(* the start of the process                                                *)
(***************************************************************************)
\* the tools whose handler calls requireProject, among those calls are made to
ProjectScoped == {"list_release_definitions", "get_release_logs"}

\* the first request a project-scoped handler sends once it has its project
FirstProjectRequest == {"getReleaseDefinitions", "getRelease"}

\* C11: requireProject(p) returns p for every explicit string p, returns the
\* configured default when no project is given, and fails with "Project is
\* required..." exactly when neither is available.
C11_RequireProjectReturnsExplicitName ==
  \A c \in Calls :
    LET p == Get(validatedArgs[c], "project")
    IN  /\ (pending[c].endpoint \in FirstProjectRequest =>
              /\ pending[c].params[1].t = "string"
              /\ pending[c].params[1] = IF p.t = "string" THEN p ELSE defaultProject)
        /\ (Done(c) /\ name[c] \in ProjectScoped /\ trace[c].outcome = "threw"
              /\ trace[c].thrown = Error(ProjectRequired) =>
              p.t = "undefined" /\ defaultProject = JUndef)

\* C12: a project-scoped operation called with valid arguments that name no
\* project, no default project being configured, ends in the error envelope
\* "Error executing <name>: Project is required. ...", whatever the upstream
\* does.
C12_ProjectRequiredIsPropagated ==
  \A c \in Calls :
    (Done(c) /\ name[c] \in ProjectScoped /\ trace[c].validation = "ok"
       /\ ~HasKey(args[c], "project") /\ defaultProject = JUndef) =>
      envelopes[c] =
        <<[isError |-> TRUE,
           text |-> "Error executing " \o name[c] \o ": " \o ProjectRequired]>>

\* the tables that declare the operation n, by position in the merge order
Declaring(n) ==
  { t \in 1..Len(tables) : \E i \in 1..Len(tables[t].tools) : tables[t].tools[i].name = n }

\* the last table in merge order that declares n
LastDeclaring(n) == CHOOSE t \in Declaring(n) : \A u \in Declaring(n) : u <= t

\* the names the imported tables declare
ImportedNames ==
  UNION { { tables[t].tools[i].name : i \in 1..Len(tables[t].tools) } : t \in 1..Len(tables) }

\* C13: the registry is the merge of the tables in their order, last write
\* wins: its names are the declared names, the lookup of a name gives the
\* entry of the last table that declares it, and building it again from the
\* same tables gives the same registry.
C13_MergeIsLastWriteWins ==
  /\ OwnKeys(allTools) = ImportedNames
  /\ \A n \in ImportedNames :
       LET found == Lookup(allTools, n)
           last == tables[LastDeclaring(n)]
       IN  /\ In(n, allTools)
           /\ found.own
           /\ found.entry.table = last.table
           /\ ToolIn(tables, found.entry) = last.tools[IndexOfName(last.tools, n)]
  /\ allTools = RegistryOf(tables)

C13_Witness ==
  /\ Len(tables) = MaxTables
  /\ tables[1].tools[1].name = "get_item"
  /\ tables[2].tools[1].name = "get_item"
  /\ tables[MaxTables].tools[1].name = "list_items"
  /\ ToolIn(tables, Lookup(allTools, "get_item").entry).description = "Declared by gitTools"
  /\ step = "serving"

\* C14: a name declared by two tables is a startup error: with such tables
\* the process never constructs the client nor registers a handler, so no
\* registry in which one entry has overwritten the other is ever served.
C14_DuplicateNameIsStartupError ==
  (\E n \in ImportedNames : Cardinality(Declaring(n)) > 1) =>
    /\ ~client
    /\ handlers = {}
    /\ step \in {"main", "exited"}

\* the position in the merge order of the table a registry entry comes from
TableIndex(e) == CHOOSE t \in 1..Len(tables) : tables[t].table = e.table

NamesAreUnique == \A n \in ImportedNames : Cardinality(Declaring(n)) = 1

\* C15: the tool list has exactly one entry {name, description, inputSchema}
\* per registry entry, with the description and the document of the schema of
\* that operation, in the order in which the tables were merged, the
\* operations of one table staying together.
C15_ListHasOneEntryPerOperationInMergeOrder ==
  listed # <<>> =>
    /\ Len(listed) = Len(allTools)
    /\ \A i, j \in 1..Len(listed) : listed[i].name = listed[j].name => i = j
    /\ \A i \in 1..Len(listed) :
         LET tool == ToolIn(tables, allTools[i])
         IN  /\ DOMAIN listed[i] = {"name", "description", "inputSchema"}
             /\ listed[i].name = allTools[i].name
             /\ listed[i].description = tool.description
             /\ listed[i].inputSchema = zodToJsonSchema(tool.inputSchema)
    /\ (NamesAreUnique =>
          \A i, j \in 1..Len(listed) :
            i < j =>
              \/ TableIndex(allTools[i]) < TableIndex(allTools[j])
              \/ /\ allTools[i].table = allTools[j].table
                 /\ LET tools == tables[TableIndex(allTools[i])].tools
                    IN  IndexOfName(tools, listed[i].name) < IndexOfName(tools, listed[j].name))
    /\ (imports = ProgramImports =>
          /\ { listed[i].name : i \in 1..Len(listed) } = DeclaredNames
          /\ JSONstringify(listed[3].inputSchema) =
               "{\n  \"type\": \"object\",\n  \"properties\": {\n    \"project\": {\n"
               \o "      \"type\": \"string\",\n      \"description\": \"Project name or ID\"\n"
               \o "    }\n  },\n  \"required\": [\n    \"project\"\n  ]\n}")

C15_Witness ==
  /\ imports = ProgramImports
  /\ Len(listed) = 36
  /\ listed[1].name = "test_connection"
  /\ listed[4].name = "list_repos"
  /\ listed[36].name = "analyze_test_failures"

\* a JSON Schema document: an object with a type, whose nested schemas are
\* documents too
RECURSIVE IsDocument(_)
IsDocument(d) ==
  /\ d.t = "object"
  /\ Get(d, "type").t = "string"
  /\ (HasKey(d, "properties") =>
        /\ Get(d, "properties").t = "object"
        /\ \A i \in 1..Len(Get(d, "properties").items) :
             IsDocument(Get(d, "properties").items[i].v))
  /\ (HasKey(d, "items") => IsDocument(Get(d, "items")))
  /\ (HasKey(d, "additionalProperties") => IsDocument(Get(d, "additionalProperties")))

\* the document the tool list gives for the field of the drawn tools
FieldDocument(i) == Get(Get(listed[i].inputSchema, "properties"), "field")

\* C16: document generation is total: for every schema tree, of any nesting
\* of object, optional, default, string, number, boolean, array, enum, record
\* or a kind it has no branch for, the tool list carries a document, and the
\* unrecognised kind gives the fallback {type: "object"}.
C16_DiscoveryDocumentIsTotal ==
  listed # <<>> =>
    \A i \in 1..Len(listed) :
      /\ IsDocument(listed[i].inputSchema)
      /\ (imports.names # <<>> /\ imports.field = ZAny =>
            FieldDocument(i) = JObj(<<Prop("type", JStr("object"))>>))
      /\ (imports.names # <<>> /\ imports.field = ZRecord(ZOptional(ZAny)) =>
            Get(FieldDocument(i), "additionalProperties")
              = JObj(<<Prop("type", JStr("object"))>>))

C16_Witness ==
  /\ listed # <<>>
  /\ imports.names # <<>>
  /\ imports.field = ZOptional(ZArray(ZAny))
  /\ FieldDocument(1) =
       JObj(<< Prop("type", JStr("array")),
               Prop("items", JObj(<<Prop("type", JStr("object"))>>)),
               Prop("description", JUndef) >>)

\* the schema under the optional/default wrappers of a field
RECURSIVE Unwrapped(_)
Unwrapped(f) ==
  IF f.cls \in {"ZodOptional", "ZodDefault"} THEN Unwrapped(f.inner[1]) ELSE f

\* the default a field declares: that of its outermost default wrapper
RECURSIVE DeclaredDefault(_)
DeclaredDefault(f) ==
  CASE f.cls = "ZodDefault" -> f.dflt
    [] f.cls = "ZodOptional" -> DeclaredDefault(f.inner[1])
    [] OTHER -> JUndef

BaseType(b) ==
  CASE b.cls \in {"ZodString", "ZodNumber", "ZodBoolean"} -> Primitive(b.cls)
    [] b.cls = "ZodArray" -> "array"
    [] b.cls = "ZodEnum" -> "string"
    [] OTHER -> "object"

\* C17: for every declared field the document gives the base type under the
\* optional/default wrappers, and the default, the description and the enum
\* values the field declares, also when the description was attached to the
\* wrapper.
C17_FieldKeepsDefaultDescriptionEnum ==
  listed # <<>> =>
    \A i \in 1..Len(listed) :
      LET shape == ToolIn(tables, allTools[i]).inputSchema.shape
      IN  \A k \in 1..Len(shape) :
            LET f == shape[k][2]
                doc == Get(Get(listed[i].inputSchema, "properties"), shape[k][1])
            IN  /\ Get(doc, "type") = JStr(BaseType(Unwrapped(f)))
                /\ (DeclaredDefault(f) # JUndef => Get(doc, "default") = DeclaredDefault(f))
                /\ (f.description # JUndef => Get(doc, "description") = f.description)
                /\ (Unwrapped(f).cls = "ZodEnum" =>
                      Get(doc, "enum") = JArr(AsStrings(Unwrapped(f).options)))

\* the schema is built of the kinds the domain tables declare fields with
RECURSIVE UsesDeclaredKinds(_)
UsesDeclaredKinds(schema) ==
  CASE schema.cls \in {"ZodString", "ZodNumber", "ZodBoolean", "ZodEnum"} -> TRUE
    [] schema.cls \in {"ZodOptional", "ZodDefault", "ZodArray"} ->
         UsesDeclaredKinds(schema.inner[1])
    [] schema.cls = "ZodObject" ->
         \A k \in 1..Len(schema.shape) : UsesDeclaredKinds(schema.shape[k][2])
    [] OTHER -> FALSE

\* the keys of the fields of a shape that carry neither .optional() nor
\* .default()
Unmarked(shape) ==
  { shape[k][1] : k \in { k \in 1..Len(shape) : Unwrapped(shape[k][2]) = shape[k][2] } }

\* the names the document lists as required
ListedRequired(doc) ==
  LET required == Get(doc, "required")
  IN  IF required.t = "array"
      THEN { required.items[j].v.s : j \in 1..Len(required.items) }
      ELSE {}

\* C18: the fields a discovery document lists as required are exactly the
\* fields with neither a default nor an optional marker, and validating {}
\* succeeds iff there is no such field, every defaulted field then holding
\* its default.
C18_RequiredIffNeitherDefaultNorOptional ==
  listed # <<>> =>
    \A i \in 1..Len(listed) :
      LET schema == ToolIn(tables, allTools[i]).inputSchema
          shape == schema.shape
          doc == listed[i].inputSchema
          r == safeParse(schema, JObj(<<>>))
      IN  /\ ListedRequired(doc) = Unmarked(shape)
          /\ Get(doc, "required").t = "array" => Len(Get(doc, "required").items) = Cardinality(Unmarked(shape))
          /\ UsesDeclaredKinds(schema) =>
               /\ r.success <=> Unmarked(shape) = {}
               /\ r.success =>
                    \A k \in 1..Len(shape) :
                      shape[k][2].cls = "ZodDefault" =>
                        Get(r.data, shape[k][1]) = shape[k][2].dflt

\* the program's operations are listed: list_builds, which has a defaulted
\* field and no required one, and get_build, which requires buildId
C18_Witness ==
  /\ listed # <<>>
  /\ \E i, j \in 1..Len(listed) :
       /\ listed[i].name = "list_builds"
       /\ ListedRequired(listed[i].inputSchema) = {}
       /\ \E k \in 1..Len(ToolIn(tables, allTools[i]).inputSchema.shape) :
            ToolIn(tables, allTools[i]).inputSchema.shape[k][2].cls = "ZodDefault"
       /\ safeParse(ToolIn(tables, allTools[i]).inputSchema, JObj(<<>>)).success
       /\ listed[j].name = "get_build"
       /\ "buildId" \in ListedRequired(listed[j].inputSchema)
       /\ ~safeParse(ToolIn(tables, allTools[j]).inputSchema, JObj(<<>>)).success

\* the sub-client method or accessor an endpoint names
MethodOf(endpoint) ==
  IF StartsWith(endpoint, "connection.")
  THEN SubSeq(endpoint, Len("connection.") + 1, Len(endpoint))
  ELSE endpoint

\* C19: every request a handler issues is a read, whatever the operation and
\* its arguments, and the state of the Azure DevOps server stays as it was
\* before the first call.
C19_ServerIsReadOnly ==
  /\ server = 0
  /\ \A i \in 1..Len(allTools) :
       /\ allTools[i].name \in DOMAIN RequestsOf
       /\ \A m \in RequestsOf[allTools[i].name].accessors \cup
                   RequestsOf[allTools[i].name].methods : IsRead(m)
  /\ \A c \in Calls :
       pending[c] # NoRequest =>
         /\ IsRead(MethodOf(pending[c].endpoint))
         /\ MethodOf(pending[c].endpoint) \in
              RequestsOf[name[c]].accessors \cup RequestsOf[name[c]].methods

\* every call has finished, one of them get_release_logs, which the upstream
\* answered
C19_Witness ==
  /\ \A c \in Calls : pc[c] = "done"
  /\ \E c \in Calls : name[c] = "get_release_logs" /\ envelopes[c] # <<>>
  /\ upstream["connection.getReleaseApi"] = "ok"
  /\ upstream["getRelease"] = "ok"
  /\ server = 0

\* the environments whose server URL is not a URL or whose token is empty
Malformed ==
  { e \in Environments :
      \/ e.AZURE_DEVOPS_URL \in {JUndef, JStr("tfs.example.com")}
      \/ e.AZURE_DEVOPS_PAT \in {JUndef, JStr("")} }

\* C20: once main() has loaded a malformed configuration the process has
\* exited with status 1, no facade was constructed and no request handler
\* registered; a facade, a handler or a dispatched call exists only under a
\* well-formed configuration.
C20_MalformedConfigurationIsFatalAtStartup ==
  /\ (step # "main" /\ env \in Malformed) =>
       /\ step = "exited"
       /\ exitCode = 1
       /\ ~client
       /\ handlers = {}
       /\ listed = <<>>
       /\ \A c \in Calls : pc[c] = "idle"
  /\ (client \/ handlers # {} \/ listed # <<>> \/ step = "serving") =>
       /\ env \notin Malformed
       /\ ~loadConfig(env).threw
       /\ exitCode = -1
  /\ step = "exited" => env \in Malformed /\ loadConfig(env).threw

\* the process has exited on a server URL without a scheme, the token being
\* set
C20_Witness ==
  /\ step = "exited"
  /\ exitCode = 1
  /\ env.AZURE_DEVOPS_URL = JStr("tfs.example.com")
  /\ env.AZURE_DEVOPS_PAT = JStr("token")
  /\ ~client
  /\ handlers = {}

\* C23: with AZURE_DEVOPS_URL set as the README documents it, the collection
\* included, the token set and no other variable set, the client connects to
\* that URL less at most one trailing slash.
C23_DocumentedUrlIsTheCollectionUrl ==
  (/\ client
   /\ env.AZURE_DEVOPS_URL \in {JStr("http://tfs:8080/tfs/DefaultCollection"),
                                JStr("http://tfs:8080/tfs/DefaultCollection/")}
   /\ env.AZURE_DEVOPS_PAT = JStr("token")
   /\ env.AZURE_DEVOPS_COLLECTION = JUndef
   /\ env.AZURE_DEVOPS_PROJECT = JUndef)
  => collectionUrl = "http://tfs:8080/tfs/DefaultCollection"

(***************************************************************************)
(* The handlers followed request by request.  A handler is a function of   *)
(* the answers it has had so far, in the order they arrived: it awaits     *)
(* further requests, returns or throws.  One invocation is followed, made  *)
(* on a client that has no sub-client cached.                              *)
(***************************************************************************)
Fetch(endpoint, params) == [endpoint |-> endpoint, params |-> params]

Awaits(requests) ==
  [kind |-> "await", requests |-> requests, value |-> JUndef, error |-> Error("")]

Returns(value) ==
  [kind |-> "return", requests |-> <<>>, value |-> value, error |-> Error("")]

Throws(error) ==
  [kind |-> "throw", requests |-> <<>>, value |-> JUndef, error |-> error]

\* what the upstream answers a request with
Fulfilled(data) == [ok |-> TRUE, data |-> data, error |-> Error("")]

Rejected(endpoint) ==
  [ok |-> FALSE, data |-> JUndef, error |-> Rejection(endpoint, "error")]

\* reading a property of null or undefined
TypeError(v, key) ==
  Error("Cannot read properties of " \o v.t \o " (reading '" \o key \o "')")

\* the object with these keys of obj
Pick(obj, keys) == JObj([i \in 1..Len(keys) |-> Prop(keys[i], Get(obj, keys[i]))])

AtLast(array, i) ==
  IF array.t = "array" /\ array.items # <<>> THEN array.items[Len(array.items)].v ELSE JUndef

\* array[i] of JavaScript, i counted from 0
At(array, i) ==
  IF array.t = "array" /\ i + 1 \in 1..Len(array.items) THEN array.items[i + 1].v ELSE JUndef

\* the answers to the requests to `endpoint`, in the order they arrived
AnswersOf(h, endpoint) == SelectSeq(h, LAMBDA x : x.endpoint = endpoint)

\* the values of a JavaScript array
Values(array) ==
  IF array.t = "array" THEN [i \in 1..Len(array.items) |-> array.items[i].v] ELSE <<>>

SliceKeepsAll(seq, n) == seq

\* array.slice(0, n) on a sequence, for an integer n (a negative n counts
\* from the end)
Slice(seq, n) ==
  LET end == IF n < 0 THEN (IF Len(seq) + n < 0 THEN 0 ELSE Len(seq) + n)
             ELSE IF n > Len(seq) THEN Len(seq) ELSE n
  IN  SubSeq(seq, 1, end)

\* a readable stream delivering `text`, and what streamToString reads of it
Stream(text) == JObj(<<Prop("content", JStr(text))>>)

streamToString(stream) == Get(stream, "content")

\* { version, versionType: 2 }: the version descriptor of a commit
AtCommit(version) == JObj(<<Prop("version", version), Prop("versionType", JNum(2))>>)

TryUncaught(answer) == [threw |-> ~answer.ok, value |-> answer.data]

\* try { x = await request } catch { }: x stays undefined when the request
\* is rejected
Try(answer) == [threw |-> FALSE, value |-> IF answer.ok THEN answer.data ELSE JUndef]

\* gitTools.get_commit_diff
get_commit_diff(a, project, h) ==
  LET repository == Get(a, "repository")
      path == Get(a, "path")
      content(version) ==
        Fetch("getItemContent",
              <<repository, path, project, JUndef, JUndef, JUndef, JUndef, JUndef,
                AtCommit(version)>>)
  IN  IF h = <<>>
      THEN Awaits(<<Fetch("getCommit", <<Get(a, "commitId"), repository, project>>)>>)
      ELSE IF ~h[1].ok THEN Throws(h[1].error)
      ELSE IF h[1].data.t # "object" THEN Throws(TypeError(h[1].data, "parents"))
      ELSE
        LET parentCommitId == At(Get(h[1].data, "parents"), 0)
        IN  IF Len(h) = 1 THEN Awaits(<<content(Get(a, "commitId"))>>)
            ELSE IF ~h[2].ok THEN Throws(h[2].error)
            ELSE IF Truthy(parentCommitId) /\ Len(h) = 2
            THEN Awaits(<<content(parentCommitId)>>)
            ELSE
              LET previous == IF Truthy(parentCommitId) THEN Try(h[3])
                              ELSE [threw |-> FALSE, value |-> JUndef]
                  text(stream) == IF Truthy(stream) THEN streamToString(stream) ELSE JNull
              IN  IF previous.threw THEN Throws(h[3].error)
                  ELSE Returns(JObj(<< Prop("path", path),
                                       Prop("commitId", Get(a, "commitId")),
                                       Prop("parentCommitId", parentCommitId),
                                       Prop("currentContent", text(h[2].data)),
                                       Prop("previousContent", text(previous.value)) >>))

\* the data of the first answer to `endpoint`, undefined while there is none
DataOf(h, endpoint) ==
  IF AnswersOf(h, endpoint) = <<>> THEN JUndef ELSE AnswersOf(h, endpoint)[1].data

PromiseAllFirstSettles(h, n) ==
  IF h # <<>> /\ ~h[1].ok THEN [state |-> "rejected", error |-> h[1].error]
  ELSE IF h = <<>> THEN [state |-> "pending", error |-> Error("")]
  ELSE [state |-> "fulfilled", error |-> Error("")]

\* await Promise.all of n requests, h being their answers so far: rejected
\* with the first rejection, fulfilled once all n are
PromiseAll(h, n) ==
  IF \E i \in 1..Len(h) : ~h[i].ok
  THEN [state |-> "rejected",
        error |-> h[CHOOSE i \in 1..Len(h) : ~h[i].ok /\ \A j \in 1..(i - 1) : h[j].ok].error]
  ELSE IF Len(h) < n THEN [state |-> "pending", error |-> Error("")]
  ELSE [state |-> "fulfilled", error |-> Error("")]

\* threads.map(t => ({ id, status, comments, threadContext }))
ThreadSummary(t) ==
  LET comment(c) ==
        JObj(<< Prop("author", Get(Get(c, "author"), "displayName")),
                Prop("content", Get(c, "content")),
                Prop("publishedDate", Get(c, "publishedDate")),
                Prop("commentType", Get(c, "commentType")) >>)
      comments == Values(Get(t, "comments"))
  IN  JObj(<< Prop("id", Get(t, "id")),
              Prop("status", Get(t, "status")),
              Prop("comments",
                   IF Get(t, "comments").t \in {"undefined", "null"} THEN JUndef
                   ELSE JArr([i \in 1..Len(comments) |-> comment(comments[i])])),
              Prop("threadContext", Get(t, "threadContext")) >>)

\* gitTools.get_pull_request
get_pull_request(a, project, h) ==
  LET all == PromiseAll(h, 2)
      pr == DataOf(h, "getPullRequest")
      threads == DataOf(h, "getThreads")
      id == <<Get(a, "repository"), Get(a, "pullRequestId"), project>>
  IN  IF h = <<>> THEN Awaits(<<Fetch("getPullRequest", id), Fetch("getThreads", id)>>)
      ELSE IF all.state = "rejected" THEN Throws(all.error)
      ELSE IF all.state = "pending" THEN Awaits(<<>>)
      ELSE IF pr.t \in {"undefined", "null"} THEN Throws(TypeError(pr, "pullRequestId"))
      ELSE IF threads.t # "array" THEN Throws(TypeError(threads, "map"))
      ELSE Returns(JObj(
             Pick(pr, <<"pullRequestId", "title", "description", "status", "createdBy",
                        "creationDate", "closedDate", "sourceRefName", "targetRefName",
                        "mergeStatus", "isDraft", "reviewers", "commits">>).items
             \o <<Prop("threads",
                       JArr([i \in 1..Len(Values(threads)) |->
                               ThreadSummary(Values(threads)[i])]))>>))

\* x ? { id: x.id, name: x.name } : undefined
Reference(x) == IF Truthy(x) THEN Pick(x, <<"id", "name">>) ELSE JUndef

\* list.slice(0, top || fallback)
Top(list, top, fallback) == Slice(Values(list), IF Truthy(top) THEN top.n ELSE fallback)

\* testResultsTools.list_test_runs
list_test_runs(a, project, h) ==
  IF h = <<>> THEN Awaits(<<Fetch("getTestRuns", <<project, Get(a, "buildUri")>>)>>)
  ELSE IF ~h[1].ok THEN Throws(h[1].error)
  ELSE
    LET runs == Top(h[1].data, Get(a, "top"), 25)
        summary(r) ==
          JObj(Pick(r, <<"id", "name", "state", "totalTests", "passedTests">>).items
               \o <<Prop("failedTests", Get(r, "unanalyzedTests"))>>
               \o Pick(r, <<"incompleteTests", "notApplicableTests", "startedDate",
                            "completedDate">>).items
               \o <<Prop("build", Reference(Get(r, "build"))),
                    Prop("release", Reference(Get(r, "release"))),
                    Prop("url", Get(r, "webAccessUrl"))>>)
    IN  Returns(JArr([i \in 1..Len(runs) |-> summary(runs[i])]))

\* testResultsTools.get_test_results
get_test_results(a, project, h) ==
  IF h = <<>> THEN Awaits(<<Fetch("getTestResults", <<project, Get(a, "runId")>>)>>)
  ELSE IF ~h[1].ok THEN Throws(h[1].error)
  ELSE
    LET results == Top(h[1].data, Get(a, "top"), 100)
        summary(r) ==
          JObj(Pick(r, <<"id", "testCaseTitle", "automatedTestName", "outcome", "state",
                         "durationInMs", "errorMessage", "stackTrace", "failureType",
                         "computerName", "startedDate", "completedDate">>).items
               \o <<Prop("testCase", Reference(Get(r, "testCase"))),
                    Prop("build", Reference(Get(r, "build")))>>)
    IN  Returns(JArr([i \in 1..Len(results) |-> summary(results[i])]))

(***************************************************************************)
(* Text: the string methods and the regular expressions the handlers use.  *)
(***************************************************************************)
UpperCase == { SubSeq("ABCDEFGHIJKLMNOPQRSTUVWXYZ", k, k) : k \in 1..26 }

WordCharacters ==
  { SubSeq("abcdefghijklmnopqrstuvwxyzABCDEFGHIJKLMNOPQRSTUVWXYZ0123456789_", k, k) :
      k \in 1..63 }

RECURSIVE toLowerCase(_)
toLowerCase(s) ==
  IF s = "" THEN ""
  ELSE LET c == SubSeq(s, 1, 1)
           lower(u) == LET i == CHOOSE i \in 1..26 :
                                  SubSeq("ABCDEFGHIJKLMNOPQRSTUVWXYZ", i, i) = u
                       IN  SubSeq("abcdefghijklmnopqrstuvwxyz", i, i)
       IN  (IF c \in UpperCase THEN lower(c) ELSE c) \o toLowerCase(SubSeq(s, 2, Len(s)))

\* \w and \s of a regular expression, for the character at position i
IsWord(s, i) == i \in 1..Len(s) /\ SubSeq(s, i, i) \in WordCharacters

IsSpace(s, i) == i \in 1..Len(s) /\ SubSeq(s, i, i) \in {" ", "\t", "\n", "\r"}

\* s.trim()
trim(s) ==
  LET inked == { i \in 1..Len(s) : ~IsSpace(s, i) }
  IN  IF inked = {} THEN ""
      ELSE SubSeq(s, CHOOSE i \in inked : \A j \in inked : i <= j,
                     CHOOSE i \in inked : \A j \in inked : j <= i)

\* /\b<word>/i.test(s) for s in lower case, and /\b<word>\b/i.test(s) when
\* `closed`; word is in lower case and starts and ends with a word character
TestWord(s, word, closed) ==
  \E i \in 1..(Len(s) - Len(word) + 1) :
    /\ SubSeq(s, i, i + Len(word) - 1) = word
    /\ ~IsWord(s, i - 1)
    /\ closed => ~IsWord(s, i + Len(word))

\* s.match(/##vso\[task\.logissue\s+type=(\w+)[^\]]*\](.*)/): the leftmost
\* match and its two groups
MatchLogIssue(s) ==
  LET tag == "##vso[task.logissue"
      \* the position after the run of characters satisfying Is, from i
      RECURSIVE After(_, _)
      After(i, spaces) ==
        IF (IF spaces THEN IsSpace(s, i) ELSE IsWord(s, i)) THEN After(i + 1, spaces) ELSE i
      attempt(i) ==
        LET k == After(i + Len(tag), TRUE)
            w == k + Len("type=")
            e == After(w, FALSE)
            closing == { b \in e..Len(s) : SubSeq(s, b, b) = "]" }
        IN  IF /\ SubSeq(s, i, i + Len(tag) - 1) = tag
               /\ k > i + Len(tag)
               /\ k + Len("type=") - 1 <= Len(s)
               /\ SubSeq(s, k, w - 1) = "type="
               /\ e > w
               /\ closing # {}
            THEN LET b == CHOOSE b \in closing : \A c \in closing : b <= c
                 IN  [matched |-> TRUE, type |-> SubSeq(s, w, e - 1),
                      rest |-> SubSeq(s, b + 1, Len(s))]
            ELSE [matched |-> FALSE, type |-> "", rest |-> ""]
      starts == { i \in 1..(Len(s) - Len(tag) + 1) :
                    SubSeq(s, i, i + Len(tag) - 1) = tag /\ attempt(i).matched }
  IN  IF starts = {} THEN [matched |-> FALSE, type |-> "", rest |-> ""]
      ELSE attempt(CHOOSE i \in starts : \A j \in starts : i <= j)

RECURSIVE Flatten(_)
Flatten(seqs) == IF seqs = <<>> THEN <<>> ELSE Head(seqs) \o Flatten(Tail(seqs))

\* errors.slice(0, 50): the findings reported of each kind
FindingsLimit == 50

\* BuildStatus[status] and BuildResult[result]: the names of the enum values
BuildStatus(status) ==
  CASE status = JNum(0) -> JStr("None")
    [] status = JNum(1) -> JStr("InProgress")
    [] status = JNum(2) -> JStr("Completed")
    [] status = JNum(4) -> JStr("Cancelling")
    [] status = JNum(8) -> JStr("Postponed")
    [] status = JNum(32) -> JStr("NotStarted")
    [] status = JNum(47) -> JStr("All")
    [] OTHER -> JUndef

BuildResult(result) ==
  CASE result = JNum(0) -> JStr("None")
    [] result = JNum(2) -> JStr("Succeeded")
    [] result = JNum(4) -> JStr("PartiallySucceeded")
    [] result = JNum(8) -> JStr("Failed")
    [] result = JNum(32) -> JStr("Canceled")
    [] OTHER -> JUndef

\* the tests analyze_build_errors makes on a line of a log
IsErrorLine(line) ==
  LET s == toLowerCase(line)
  IN  TestWord(s, "error", TRUE) /\ ~TestWord(s, "0 error", FALSE)

IsWarningLine(line) ==
  LET s == toLowerCase(line)
  IN  TestWord(s, "warning", TRUE) /\ ~TestWord(s, "0 warning", FALSE)

\* what the loop over the lines of one log pushes
FindingsIn(lines, logId) ==
  LET texts == SelectSeq([i \in 1..Len(lines) |-> lines[i].s], LAMBDA line : TRUE)
      trimmed(ls) == [i \in 1..Len(ls) |-> JStr(trim(ls[i]))]
      issue(line) ==
        LET m == MatchLogIssue(line)
        IN  IF m.matched
            THEN <<JObj(<< Prop("type", JStr(m.type)),
                           Prop("message", JStr(trim(m.rest))),
                           Prop("logId", logId) >>)>>
            ELSE <<>>
  IN  [errors |-> trimmed(SelectSeq(texts, IsErrorLine)),
       warnings |-> trimmed(SelectSeq(texts, IsWarningLine)),
       issues |-> Flatten([i \in 1..Len(texts) |-> issue(texts[i])])]

\* if (!log.id) continue
WithId(logs) == SelectSeq(logs, LAMBDA log : Truthy(Get(log, "id")))

\* buildTools.analyze_build_errors
analyze_build_errors(a, project, h) ==
  LET id == <<project, Get(a, "buildId")>>
  IN  IF h = <<>> THEN Awaits(<<Fetch("getBuild", id)>>)
      ELSE IF ~h[1].ok THEN Throws(h[1].error)
      ELSE IF Len(h) = 1 THEN Awaits(<<Fetch("getBuildLogs", id)>>)
      ELSE IF ~h[2].ok THEN Throws(h[2].error)
      ELSE
        LET build == h[1].data
            logs == WithId(Values(h[2].data))
            read == Len(h) - 2
            found == [k \in 1..read |->
                        LET lines == Try(h[k + 2])
                        IN  IF lines.value.t = "array"
                            THEN FindingsIn(Values(lines.value), Get(logs[k], "id"))
                            ELSE [errors |-> <<>>, warnings |-> <<>>, issues |-> <<>>]]
            errors == Flatten([k \in 1..read |-> found[k].errors])
            warnings == Flatten([k \in 1..read |-> found[k].warnings])
            issues == Flatten([k \in 1..read |-> found[k].issues])
        IN  IF read < Len(logs)
            THEN Awaits(<<Fetch("getBuildLogLines", id \o <<Get(logs[read + 1], "id")>>)>>)
            ELSE Returns(JObj(<<
                   Prop("buildId", Get(build, "id")),
                   Prop("buildNumber", Get(build, "buildNumber")),
                   Prop("status", IF Get(build, "status") # JUndef
                                  THEN BuildStatus(Get(build, "status")) ELSE JUndef),
                   Prop("result", IF Get(build, "result") # JUndef
                                  THEN BuildResult(Get(build, "result")) ELSE JUndef),
                   Prop("summary",
                        JObj(<< Prop("errorCount", JNum(Len(errors))),
                                Prop("warningCount", JNum(Len(warnings))),
                                Prop("issueCount", JNum(Len(issues))) >>)),
                   Prop("errors", JArr(Slice(errors, FindingsLimit))),
                   Prop("warnings", JArr(Slice(warnings, FindingsLimit))),
                   Prop("issues", JArr(Slice(issues, FindingsLimit))) >>))

\* the groups reported, the failures of a key kept as test names, and the
\* characters of a message that make the key
GroupsLimit == 20

AffectedTestsLimit == 5

KeyLength == 100

\* failure.errorMessage?.substring(0, 100) || 'Unknown error'
GroupKey(failure) ==
  LET message == Get(failure, "errorMessage")
      key == IF message.t = "string"
             THEN JStr(SubSeq(message.s, 1, IF Len(message.s) < KeyLength THEN Len(message.s)
                                            ELSE KeyLength))
             ELSE JUndef
  IN  IF Truthy(key) THEN key.s ELSE "Unknown error"

\* list.sort((a, b) => b.count - a.count): stable, by falling count
RECURSIVE SortByCount(_)
SortByCount(groups) ==
  IF groups = <<>> THEN <<>>
  ELSE LET sorted == SortByCount(SubSeq(groups, 1, Len(groups) - 1))
           last == groups[Len(groups)]
           before == SelectSeq(sorted, LAMBDA g : g.count >= last.count)
           after == SelectSeq(sorted, LAMBDA g : g.count < last.count)
       IN  before \o <<last>> \o after

\* the loop that fills groupedByError, an object literal: a key that names a
\* member of Object.prototype finds that member, which has no `tests`
GroupByError(failures) ==
  LET keys == SelectSeq([i \in 1..Len(failures) |-> GroupKey(failures[i])],
                        LAMBDA key : TRUE)
      first == SelectSeq([i \in 1..Len(keys) |-> i],
                         LAMBDA i : \A j \in 1..(i - 1) : keys[j] # keys[i])
      members(key) == LET at == SelectSeq([i \in 1..Len(keys) |-> i],
                                          LAMBDA i : keys[i] = key)
                      IN  [k \in 1..Len(at) |-> failures[at[k]]]
  IN  IF \E i \in 1..Len(keys) : keys[i] \in ObjectPrototypeKeys
      THEN [threw |-> TRUE, groups |-> <<>>]
      ELSE [threw |-> FALSE,
            groups |-> [k \in 1..Len(first) |->
                          LET of == members(keys[first[k]])
                          IN  [errorMessage |-> keys[first[k]],
                               count |-> Len(of),
                               tests |-> [i \in 1..(IF Len(of) < AffectedTestsLimit
                                                    THEN Len(of) ELSE AffectedTestsLimit) |->
                                            Get(of[i], "testName")]]]]

\* the failures pushed for the results of one run
FailuresIn(results, runId) ==
  LET failed == SelectSeq(results, LAMBDA r : Get(r, "outcome") = JStr("Failed"))
  IN  [i \in 1..Len(failed) |->
         JObj(<< Prop("testName",
                      Or(Or(Get(failed[i], "automatedTestName"),
                            Get(failed[i], "testCaseTitle")), JStr("Unknown"))),
                 Prop("errorMessage", Get(failed[i], "errorMessage")),
                 Prop("failureType", Get(failed[i], "failureType")),
                 Prop("runId", runId) >>)]

\* testResultsTools.analyze_test_failures
analyze_test_failures(a, project, h) ==
  IF h = <<>> THEN Awaits(<<Fetch("getBuild", <<project, Get(a, "buildId")>>)>>)
  ELSE IF ~h[1].ok THEN Throws(h[1].error)
  ELSE IF Len(h) = 1
  THEN Awaits(<<Fetch("getTestRuns", <<project, Get(h[1].data, "uri")>>)>>)
  ELSE IF ~h[Len(h)].ok THEN Throws(h[Len(h)].error)
  ELSE
    LET runs == WithId(Values(h[2].data))
        read == Len(h) - 2
        failures == Flatten([k \in 1..read |->
                               FailuresIn(Values(h[k + 2].data), Get(runs[k], "id"))])
        grouped == GroupByError(failures)
        sorted == SortByCount(grouped.groups)
        reported == Slice(sorted, GroupsLimit)
    IN  IF read < Len(runs)
        THEN Awaits(<<Fetch("getTestResults", <<project, Get(runs[read + 1], "id")>>)>>)
        ELSE IF grouped.threw THEN Throws(TypeError(JUndef, "length"))
        ELSE Returns(JObj(<<
               Prop("buildId", Get(a, "buildId")),
               Prop("buildNumber", Get(h[1].data, "buildNumber")),
               Prop("totalFailures", JNum(Len(failures))),
               Prop("failureGroups",
                    JArr([i \in 1..Len(reported) |->
                            JObj(<< Prop("errorMessage", JStr(reported[i].errorMessage)),
                                    Prop("count", JNum(reported[i].count)),
                                    Prop("affectedTests", JArr(reported[i].tests)) >>)])) >>))

DiscloseSecret(variable) == Get(variable, "value")

\* variable.isSecret ? '***' : variable.value
Disclose(variable) ==
  IF Truthy(Get(variable, "isSecret")) THEN JStr("***") ELSE Get(variable, "value")

\* pipelineTools.get_pipeline_variables
get_pipeline_variables(a, project, h) ==
  IF h = <<>> THEN Awaits(<<Fetch("getDefinition", <<project, Get(a, "pipelineId")>>)>>)
  ELSE IF ~h[1].ok THEN Throws(h[1].error)
  ELSE
    LET definition == h[1].data
        entries == IF Truthy(Get(definition, "variables"))
                   THEN ObjectEntries(Get(definition, "variables").items) ELSE <<>>
        groups == Get(definition, "variableGroups")
    IN  Returns(JObj(<<
          Prop("pipelineId", Get(a, "pipelineId")),
          Prop("pipelineName", Get(definition, "name")),
          Prop("variables",
               JArr([i \in 1..Len(entries) |->
                       JObj(<< Prop("name", JStr(entries[i].k)),
                               Prop("value", Disclose(entries[i].v)),
                               Prop("isSecret", Or(Get(entries[i].v, "isSecret"), JBool(FALSE))),
                               Prop("allowOverride",
                                    Or(Get(entries[i].v, "allowOverride"), JBool(FALSE))) >>)])),
          Prop("variableGroups",
               IF groups.t \in {"undefined", "null"} THEN JUndef
               ELSE JArr([i \in 1..Len(Values(groups)) |->
                            Pick(Values(groups)[i], <<"id", "name", "description">>)])) >>))

\* s.split('\n')
RECURSIVE Lines(_)
Lines(s) ==
  LET breaks == { i \in 1..Len(s) : SubSeq(s, i, i) = "\n" }
  IN  IF breaks = {} THEN <<s>>
      ELSE LET b == CHOOSE i \in breaks : \A j \in breaks : i <= j
           IN  <<SubSeq(s, 1, b - 1)>> \o Lines(SubSeq(s, b + 1, Len(s)))

\* the matches search_code reports for a file: line numbers from 1, the line
\* trimmed and cut to 200 characters, the first 10
MatchesIn(fileContent, searchText) ==
  LET lines == Lines(fileContent)
      hits == SelectSeq([i \in 1..Len(lines) |-> i],
                        LAMBDA i : Contains(toLowerCase(lines[i]), toLowerCase(searchText)))
  IN  Slice([k \in 1..Len(hits) |->
               JObj(<< Prop("line", JNum(hits[k])),
                       Prop("content",
                            JStr(LET t == trim(lines[hits[k]])
                                 IN  SubSeq(t, 1, IF Len(t) < 200 THEN Len(t) ELSE 200))) >>)],
            10)

\* the loop of search_code over the items from position i on, read being
\* the answers to the content requests not yet consumed: it ends, or awaits
\* the content of the item at `next`
RECURSIVE SearchLoop(_, _, _, _, _)
SearchLoop(a, items, i, read, results) ==
  IF i > Len(items) THEN [next |-> 0, results |-> results]
  ELSE
    LET item == items[i]
        path == Get(item, "path")
        extension == Get(a, "fileExtension")
        limit == IF Truthy(Get(a, "top")) THEN Get(a, "top").n ELSE 50
    IN  IF ~Truthy(path) \/ Truthy(Get(item, "isFolder"))
        THEN SearchLoop(a, items, i + 1, read, results)
        ELSE IF Truthy(extension) /\ ~EndsWith(path.s, extension.s)
        THEN SearchLoop(a, items, i + 1, read, results)
        ELSE IF read = <<>> THEN [next |-> i, results |-> results]
        ELSE IF Try(Head(read)).value.t # "object"
        THEN SearchLoop(a, items, i + 1, Tail(read), results)
        ELSE
          LET matches == MatchesIn(streamToString(Head(read).data).s, Get(a, "searchText").s)
              found == IF matches # <<>>
                       THEN Append(results, JObj(<< Prop("path", path),
                                                    Prop("matches", JArr(matches)) >>))
                       ELSE results
          IN  IF Len(found) >= limit THEN [next |-> 0, results |-> found]
              ELSE SearchLoop(a, items, i + 1, Tail(read), found)

\* repo.defaultBranch?.replace('refs/heads/', '')
ShortBranch(ref) ==
  IF ref.t # "string" THEN JUndef
  ELSE LET at == { i \in 1..(Len(ref.s) - Len("refs/heads/") + 1) :
                     SubSeq(ref.s, i, i + Len("refs/heads/") - 1) = "refs/heads/" }
       IN  IF at = {} THEN ref
           ELSE LET i == CHOOSE i \in at : \A j \in at : i <= j
                IN  JStr(SubSeq(ref.s, 1, i - 1)
                         \o SubSeq(ref.s, i + Len("refs/heads/"), Len(ref.s)))

\* gitTools.search_code
search_code(a, project, h) ==
  LET repository == Get(a, "repository")
  IN  IF h = <<>> THEN Awaits(<<Fetch("getRepository", <<repository, project>>)>>)
      ELSE IF ~h[1].ok THEN Throws(h[1].error)
      ELSE IF Len(h) = 1
      THEN Awaits(<<Fetch("getItems",
                          <<repository, project, Or(Get(a, "path"), JStr("/")), JNum(1),
                            JBool(TRUE), JBool(FALSE), JBool(FALSE)>>)>>)
      ELSE IF ~h[2].ok THEN Throws(h[2].error)
      ELSE
        LET version == Or(Get(a, "branch"), ShortBranch(Get(h[1].data, "defaultBranch")))
            loop == SearchLoop(a, Values(h[2].data), 1, SubSeq(h, 3, Len(h)), <<>>)
            limit == IF Truthy(Get(a, "top")) THEN Get(a, "top").n ELSE 50
        IN  IF loop.next # 0
            THEN Awaits(<<Fetch("getItemContent",
                                <<repository, Get(Values(h[2].data)[loop.next], "path"),
                                  project>>)>>)
            ELSE Returns(JObj(<< Prop("searchText", Get(a, "searchText")),
                                 Prop("repository", repository),
                                 Prop("branch", version),
                                 Prop("resultCount", JNum(Len(loop.results))),
                                 Prop("results", JArr(Slice(loop.results, limit))) >>))

\* parseInt(digits, 10)
RECURSIVE parseInt(_)
parseInt(digits) ==
  IF digits = "" THEN 0
  ELSE parseInt(SubSeq(digits, 1, Len(digits) - 1)) * 10
       + ((CHOOSE k \in 1..10 : SubSeq("0123456789", k, k) = SubSeq(digits, Len(digits), Len(digits))) - 1)

\* url.match(/PullRequestId[/%](\d+)/i): the digits of the leftmost match,
\* "" if there is none
MatchPullRequestId(url) ==
  LET word == "pullrequestid"
      isDigit(i) == i \in 1..Len(url) /\ \E k \in 1..10 : SubSeq("0123456789", k, k) = SubSeq(url, i, i)
      starts == { i \in 1..(Len(url) - Len(word) - 1) :
                    /\ toLowerCase(SubSeq(url, i, i + Len(word) - 1)) = word
                    /\ SubSeq(url, i + Len(word), i + Len(word)) \in {"/", "%"}
                    /\ isDigit(i + Len(word) + 1) }
  IN  IF starts = {} THEN ""
      ELSE LET i == CHOOSE i \in starts : \A j \in starts : i <= j
               from == i + Len(word) + 1
               to == CHOOSE e \in from..Len(url) :
                       /\ \A d \in from..e : isDigit(d)
                       /\ ~isDigit(e + 1)
           IN  SubSeq(url, from, to)

\* the relations of the work item that link a pull request and whose URL
\* holds an id
PullRequestLinks(workItem) ==
  SelectSeq(Values(Get(workItem, "relations")),
            LAMBDA r : /\ Get(r, "rel") = JStr("ArtifactLink")
                       /\ Get(r, "url").t = "string"
                       /\ Contains(Get(r, "url").s, "PullRequestId")
                       /\ MatchPullRequestId(Get(r, "url").s) # "")

\* the loop over the pull requests of the repository: those whose title or
\* description names the work item are pushed unless their id is listed
RECURSIVE PushMentioning(_, _, _)
PushMentioning(prs, allPrs, workItemId) ==
  IF allPrs = <<>> THEN prs
  ELSE
    LET pr == Head(allPrs)
        text == toLowerCase(Or(Get(pr, "title"), JStr("")).s \o " "
                            \o Or(Get(pr, "description"), JStr("")).s)
        named == \/ Contains(text, toLowerCase("#" \o ToString(workItemId.n)))
                 \/ Contains(text, toLowerCase("AB#" \o ToString(workItemId.n)))
        known == \E i \in 1..Len(prs) :
                    Get(prs[i], "pullRequestId") = Get(pr, "pullRequestId")
    IN  PushMentioning(IF named /\ ~known
                       THEN Append(prs, Pick(pr, <<"pullRequestId", "title", "status", "url">>))
                       ELSE prs,
                       Tail(allPrs), workItemId)

\* gitTools.get_prs_for_work_item
get_prs_for_work_item(a, project, h) ==
  IF h = <<>>
  THEN Awaits(<<Fetch("getWorkItem", <<Get(a, "workItemId"), JUndef, JUndef, JNum(4)>>)>>)
  ELSE IF ~h[1].ok THEN Throws(h[1].error)
  ELSE
    LET links == PullRequestLinks(h[1].data)
        prId(k) == JNum(parseInt(MatchPullRequestId(Get(links[k], "url").s)))
        RECURSIVE Linked(_)
        Linked(k) ==
          IF k = 0 THEN <<>>
          ELSE LET pr == h[k + 1]
               IN  Append(Linked(k - 1),
                          IF pr.ok
                          THEN JObj(<< Prop("pullRequestId",
                                            Or(Get(pr.data, "pullRequestId"), prId(k))),
                                       Prop("title", Get(pr.data, "title")),
                                       Prop("status", Get(pr.data, "status")),
                                       Prop("url", Get(pr.data, "url")) >>)
                          ELSE JObj(<< Prop("pullRequestId", prId(k)),
                                       Prop("title", JUndef),
                                       Prop("status", JUndef),
                                       Prop("url", Get(links[k], "url")) >>))
    IN  IF Len(h) - 1 < Len(links)
        THEN Awaits(<<Fetch("getPullRequest",
                            <<Get(a, "repository"), prId(Len(h)), project>>)>>)
        ELSE IF Len(h) - 1 = Len(links)
        THEN Awaits(<<Fetch("getPullRequests",
                            <<Get(a, "repository"), JObj(<<Prop("status", JNum(4))>>),
                              project>>)>>)
        ELSE IF ~h[Len(h)].ok THEN Throws(h[Len(h)].error)
        ELSE
          LET prs == PushMentioning(Linked(Len(links)), Values(h[Len(h)].data),
                                    Get(a, "workItemId"))
          IN  Returns(JObj(<< Prop("workItemId", Get(a, "workItemId")),
                              Prop("pullRequestCount", JNum(Len(prs))),
                              Prop("pullRequests", JArr(prs)) >>))

(***************************************************************************)
(* A handler from its first line: the accessors it awaits, requireProject, *)
(* then its requests.                                                      *)
(***************************************************************************)
\* the accessors a handler awaits, in its order
AccessorsOf(n) ==
  CASE n \in {"get_commit_diff", "get_pull_request", "search_code"} -> <<"getGitApi">>
    [] n = "get_prs_for_work_item" -> <<"getGitApi", "getWorkItemTrackingApi">>
    [] n \in {"list_test_runs", "get_test_results"} -> <<"getTestApi">>
    [] n = "analyze_test_failures" -> <<"getTestApi", "getBuildApi">>
    [] n \in {"analyze_build_errors", "get_pipeline_variables"} -> <<"getBuildApi">>

\* the handler after its accessors and requireProject
HandlerBody(n, a, project, h) ==
  CASE n = "get_commit_diff" -> get_commit_diff(a, project, h)
    [] n = "get_pull_request" -> get_pull_request(a, project, h)
    [] n = "search_code" -> search_code(a, project, h)
    [] n = "get_prs_for_work_item" -> get_prs_for_work_item(a, project, h)
    [] n = "list_test_runs" -> list_test_runs(a, project, h)
    [] n = "get_test_results" -> get_test_results(a, project, h)
    [] n = "analyze_test_failures" -> analyze_test_failures(a, project, h)
    [] n = "analyze_build_errors" -> analyze_build_errors(a, project, h)
    [] n = "get_pipeline_variables" -> get_pipeline_variables(a, project, h)

\* tool.handler(azureClient, validatedArgs), h being the answers so far
Handler(n, a, configDefault, h) ==
  LET accessors == AccessorsOf(n)
      got == IF Len(h) < Len(accessors) THEN Len(h) ELSE Len(accessors)
      rp == requireProject(Get(a, "project"), configDefault)
  IN  IF \E i \in 1..got : ~h[i].ok
      THEN Throws(h[CHOOSE i \in 1..got : ~h[i].ok].error)
      ELSE IF got < Len(accessors)
      THEN Awaits(<<Fetch("connection." \o accessors[got + 1], <<>>)>>)
      ELSE IF rp.threw THEN Throws(rp.error)
      ELSE HandlerBody(n, a, rp.p, SubSeq(h, Len(accessors) + 1, Len(h)))

\* the answers a handler has had to its own requests, its accessors aside
Fetched ==
  IF run.tool = "" THEN <<>>
  ELSE SelectSeq(run.answers, LAMBDA x : ~StartsWith(x.endpoint, "connection."))

(***************************************************************************)
(* The upstream: what the Azure DevOps server may answer each request      *)
(* with, and the invocations followed.                                     *)
(***************************************************************************)
MaxListed == 2

\* what the upstream may list of `all`: at most n of its elements, in its order
UpTo(all, n) ==
  { [k \in 1..Cardinality(I) |->
       all[CHOOSE i \in I : Cardinality({ j \in I : j < i }) = k - 1]] :
      I \in { J \in SUBSET (1..Len(all)) : Cardinality(J) <= n } }

Obj(keys, values) == JObj([i \in 1..Len(keys) |-> Prop(keys[i], values[i])])

Commits ==
  { Obj(<<"commitId", "parents">>, <<JStr("c1"), JArr(<<JStr("p1"), JStr("p0")>>)>>),
    Obj(<<"commitId", "parents">>, <<JStr("c1"), JArr(<<>>)>>),
    Obj(<<"commitId">>, <<JStr("c1")>>) }

\* the files of the repository on its branches
FileOn(branch, path) ==
  CASE path = "/src/a.ts" ->
         IF branch = "main" THEN "const needle = 1\nexport {}" ELSE "const thread = 1"
    [] path = "/src/b.md" ->
         IF branch = "main" THEN "# notes" ELSE "# notes\n  A Needle, and a needle  "
    [] OTHER -> "nothing"

Items ==
  { JArr(<<>>),
    JArr(<< Obj(<<"path", "isFolder">>, <<JStr("/src"), JBool(TRUE)>>),
            Obj(<<"path">>, <<JStr("/src/a.ts")>>),
            Obj(<<"path">>, <<JStr("/src/b.md")>>),
            Obj(<<"path">>, <<JStr("/src/c.ts")>>) >>) }

PullRequest(id, title) ==
  Obj(<<"pullRequestId", "title", "status", "url", "secret">>,
      <<id, JStr(title), JNum(1), JStr("https://tfs/pr"), JStr("not picked")>>)

Threads ==
  { JArr(<<>>),
    JArr(<< Obj(<<"id", "status", "comments">>,
                <<JNum(1), JNum(1),
                  JArr(<<Obj(<<"author", "content">>,
                             <<Obj(<<"displayName">>, <<JStr("Ada")>>), JStr("LGTM")>>)>>)>>),
            Obj(<<"id">>, <<JNum(2)>>) >>) }

TestRuns ==
  << Obj(<<"id", "name", "unanalyzedTests", "build">>,
         <<JNum(1), JStr("Unit"), JNum(3), Obj(<<"id", "name", "url">>,
                                               <<JStr("9"), JStr("CI"), JStr("u")>>)>>),
     Obj(<<"name">>, <<JStr("Orphan")>>),
     Obj(<<"id", "name">>, <<JNum(2), JStr("Integration")>>) >>

TestResult(n, outcome, message) ==
  Obj(<<"id", "automatedTestName", "outcome", "errorMessage">>,
      <<JNum(100), JStr(n), JStr(outcome), message>>)

RECURSIVE Repeat(_, _)
Repeat(s, n) == IF n = 0 THEN "" ELSE s \o Repeat(s, n - 1)

\* result lists: passed and failed results with failures of one key among
\* others, without a message, and alike in their first 100 characters; more
\* keys than are reported; a message that names a member of Object.prototype
TestResults ==
  { << TestResult("t1", "Passed", JUndef),
       Obj(<<"testCaseTitle", "outcome">>, <<JStr("t2"), JStr("Failed")>>),
       TestResult("t3", "Failed", JStr(Repeat("0123456789", 10) \o "a")),
       TestResult("t4", "Failed", JStr(Repeat("0123456789", 10) \o "b")) >>
    \o [i \in 1..7 |-> TestResult("a" \o ToString(i), "Failed",
                                   JStr(IF i = 2 THEN "Timeout" ELSE "Expected 1"))],
    [i \in 1..22 |-> TestResult("t" \o ToString(i), "Failed",
                                JStr("Failure " \o ToString(i)))],
    << TestResult("t1", "Failed", JStr("constructor")) >> }

Build1 ==
  Obj(<<"id", "buildNumber", "status", "result", "uri">>,
      <<JNum(5), JStr("20240101.1"), JNum(2), JNum(8), JStr("vstfs:///Build/Build/5")>>)

BuildLogs ==
  << Obj(<<"id", "type">>, <<JNum(1), JStr("Container")>>),
     Obj(<<"type">>, <<JStr("Container")>>),
     Obj(<<"id", "type">>, <<JNum(2), JStr("Container")>>) >>

\* the lines of a log: one finding of each kind among lines without any, and
\* more findings than are reported of two such logs
LogLines ==
  { <<"Build succeeded.", "    0 Error(s)", "    0 Warning(s)", "terrors: 3",
      "  src/a.cs(1,1): error CS1002: ; expected  ", "WARNING: deprecated",
      "##vso[task.logissue type=warning;code=7] Slow step ">>,
    [i \in 1..26 |-> "##vso[task.logissue type=error]a warning " \o ToString(i)] }

PipelineDefinitions ==
  { Obj(<<"name">>, <<JStr("Nightly")>>) }
  \cup
  { Obj(<<"name", "variables", "variableGroups">>,
        << JStr("Nightly"),
           Obj(<<"token", "region", "legacy">>,
               << Obj(<<"value", "isSecret">>, <<JStr(secret), JBool(TRUE)>>),
                  Obj(<<"value", "allowOverride">>, <<JStr("eu"), JBool(TRUE)>>),
                  Obj(<<"value", "isSecret">>, <<JStr("plain"), JBool(FALSE)>>) >>),
           groups >>) :
      secret \in {"hunter2", "s3cret"},
      groups \in { JUndef,
                   JArr(<<Obj(<<"id", "name", "variables">>,
                              <<JNum(1), JStr("Shared"), JStr("not picked")>>)>>) } }

Relation(rel, url) == Obj(<<"rel", "url">>, <<JStr(rel), JStr(url)>>)

Relations ==
  << Relation("ArtifactLink", "vstfs:///Git/PullRequestId/7"),
     Relation("ArtifactLink", "vstfs:///Git/Commit/abc"),
     Relation("ArtifactLink", "vstfs:///Git/PullRequestId/7c9e%2Frepo%2F41"),
     Relation("ArtifactLink", "vstfs:///Git/PullRequestId%2F8") >>

RepositoryPullRequests ==
  { JArr(<<>>),
    JArr(<<PullRequest(JNum(7), "Fix crash #12"), PullRequest(JNum(9), "ab#12: tidy"),
           PullRequest(JNum(10), "Unrelated")>>) }

\* what the upstream may answer a request with
Answers(request) ==
  LET e == request.endpoint
      p == request.params
      oneOf(S) == { Fulfilled(d) : d \in S } \cup { Rejected(e) }
  IN  CASE StartsWith(e, "connection.") -> oneOf({JObj(<<>>)})
        [] e = "getCommit" -> oneOf(Commits)
        [] e = "getItemContent" ->
             oneOf({ Stream(IF Len(p) = 9 THEN "text at " \o Get(p[9], "version").s
                            ELSE FileOn("main", p[2].s)) })
        [] e = "getRepository" -> oneOf({Obj(<<"defaultBranch">>, <<JStr("refs/heads/main")>>)})
        [] e = "getItems" -> oneOf(Items)
        [] e = "getPullRequest" -> oneOf({PullRequest(p[2], "Fix crash")})
        [] e = "getThreads" -> oneOf(Threads)
        [] e = "getPullRequests" -> oneOf(RepositoryPullRequests)
        [] e = "getWorkItem" ->
             oneOf({ Obj(<<"id", "relations">>, <<p[1], JArr(rs)>>) :
                       rs \in UpTo(Relations, MaxListed) } \cup {Obj(<<"id">>, <<p[1]>>)})
        [] e = "getTestRuns" -> oneOf({ JArr(rs) : rs \in UpTo(TestRuns, MaxListed) })
        [] e = "getTestResults" -> oneOf({ JArr(rs) : rs \in TestResults })
        [] e = "getBuild" -> oneOf({Build1})
        [] e = "getBuildLogs" -> oneOf({ JArr(ls) : ls \in UpTo(BuildLogs, MaxListed) })
        [] e = "getBuildLogLines" ->
             oneOf({ JArr([i \in 1..Len(ls) |-> JStr(ls[i])]) : ls \in LogLines })
        [] e = "getDefinition" -> oneOf(PipelineDefinitions)

\* the invocations followed: name and arguments as the dispatcher got them
FollowedInputs ==
  { Request("get_commit_diff",
            Obj(<<"repository", "commitId", "path">>,
                <<JStr("repo"), JStr("c1"), JStr("/src/a.ts")>>)),
    Request("get_pull_request",
            Obj(<<"project", "repository", "pullRequestId">>,
                <<JStr("Beta"), JStr("repo"), JNum(7)>>)),
    Request("get_prs_for_work_item",
            Obj(<<"project", "repository", "workItemId">>,
                <<JStr("Beta"), JStr("repo"), JNum(12)>>)),
    Request("analyze_test_failures",
            Obj(<<"project", "buildId">>, <<JStr("Beta"), JNum(5)>>)),
    Request("analyze_build_errors",
            Obj(<<"project", "buildId">>, <<JStr("Beta"), JNum(5)>>)),
    Request("get_pipeline_variables",
            Obj(<<"project", "pipelineId">>, <<JStr("Beta"), JNum(3)>>)) }
  \cup
  { Request("search_code",
            JObj(<<Prop("project", JStr("Beta")), Prop("repository", JStr("repo")),
                   Prop("searchText", JStr("Needle"))>> \o more)) :
      more \in { <<>>, <<Prop("branch", JStr("feature"))>>,
                 <<Prop("fileExtension", JStr(".ts")), Prop("top", JNum(1))>> } }
  \cup
  { Request(n, JObj(<<Prop("project", JStr("Beta")), Prop("runId", JNum(1))>> \o top)) :
      n \in {"list_test_runs", "get_test_results"},
      top \in { <<>>, <<Prop("top", JNum(0))>>, <<Prop("top", JNum(1))>>,
                <<Prop("top", JNum(2))>>, <<Prop("top", JNum(40))>> } }

\* what a synchronous run of the handler leaves of the invocation
Ran(r, h, outcome) ==
  CASE outcome.kind = "await" ->
         [r EXCEPT !.state = "running", !.answers = h, !.issued = @ \o outcome.requests]
    [] outcome.kind = "return" ->
         [r EXCEPT !.state = "returned", !.answers = h, !.value = outcome.value]
    [] outcome.kind = "throw" ->
         [r EXCEPT !.state = "threw", !.answers = h, !.error = outcome.error]

\* the requests issued and not yet answered
Outstanding ==
  { i \in 1..Len(run.issued) : \A k \in 1..Len(run.answers) : run.answers[k].ix # i }

\* the dispatcher validated the arguments and calls the handler
Invoke(request) ==
  /\ run.state = "idle"
  /\ LET parsed == safeParse(SchemaOf(request.name), request.arguments)
     IN  /\ parsed.success
         /\ run' = Ran([NotInvoked EXCEPT !.tool = request.name, !.args = parsed.data],
                       <<>>, Handler(request.name, parsed.data, defaultProject, <<>>))
  /\ UNCHANGED <<allTools, defaultProject, callVars, startupVars>>

\* the upstream answers a request the handler has issued; the handler runs
\* on if it was waiting for it
Responds(i) ==
  /\ run.state = "running"
  /\ i \in Outstanding
  /\ \E answer \in Answers(run.issued[i]) :
       LET h == Append(run.answers,
                       [ix |-> i, endpoint |-> run.issued[i].endpoint,
                        params |-> run.issued[i].params, ok |-> answer.ok,
                        data |-> answer.data, error |-> answer.error])
       IN  run' = Ran(run, h, Handler(run.tool, run.args, defaultProject, h))
  /\ UNCHANGED <<allTools, defaultProject, callVars, startupVars>>

HandlersNext ==
  \/ \E request \in FollowedInputs : Invoke(request)
  \/ \E i \in 1..Len(run.issued) : Responds(i)

Handlers == Init /\ [][HandlersNext]_vars


(***************************************************************************)
(* Properties of the handlers, stated on one invocation followed request   *)
(* by request.                                                             *)
(***************************************************************************)
\* the requests the invocation has issued to `endpoint`, in issue order
IssuedTo(endpoint) == SelectSeq(run.issued, LAMBDA r : r.endpoint = endpoint)

\* some accessor of the connection was rejected
AccessorFailed ==
  \E k \in 1..Len(run.answers) :
    StartsWith(run.answers[k].endpoint, "connection.") /\ ~run.answers[k].ok

\* no project in the arguments and none configured
ProjectMissing == requireProject(Get(run.args, "project"), defaultProject).threw

\* the first parent of the commit that getCommit answered with, undefined
\* when it has none or while there is no such answer
FirstParent ==
  LET commit == DataOf(Fetched, "getCommit")
      parents == IF commit.t = "object" THEN Values(Get(commit, "parents")) ELSE <<>>
  IN  IF parents = <<>> THEN JUndef ELSE parents[1]

C22_ParentFetchFollowsCommitFetch ==
  run.tool = "get_commit_diff" =>
    LET contents == IssuedTo("getItemContent")
        commit == AnswersOf(Fetched, "getCommit")
    IN  \A i \in 2..Len(contents) :
          /\ commit # <<>>
          /\ commit[1].ok
          /\ Truthy(FirstParent)
          /\ contents[i].params[9] = AtCommit(FirstParent)

\* the parent fetch is out, for the first of the commit's two parents
C22_Witness ==
  /\ run.tool = "get_commit_diff"
  /\ Len(IssuedTo("getItemContent")) = 2
  /\ Len(Values(Get(DataOf(Fetched, "getCommit"), "parents"))) = 2
  /\ IssuedTo("getItemContent")[2].params[9] = AtCommit(JStr("p1"))

\* the answers in the opposite order of arrival
Reversed(h) == [i \in 1..Len(h) |-> h[Len(h) + 1 - i]]

\* C24: get_pull_request issues its two fetches together, returns only when
\* both are answered, with the result it would have had had they completed
\* in the other order, and a rejected fetch fails the call without a result;
\* it does not fail on a fulfilled fetch while the other is still out.
C24_PullRequestFetchesAreJoined ==
  run.tool = "get_pull_request" =>
    LET project == requireProject(Get(run.args, "project"), defaultProject).p
        rejected == \E k \in 1..Len(Fetched) : ~Fetched[k].ok
    IN  /\ Len(IssuedTo("getPullRequest")) = Len(IssuedTo("getThreads"))
        /\ Len(IssuedTo("getPullRequest")) <= 1
        /\ run.state = "returned" =>
             /\ Len(Fetched) = 2
             /\ ~rejected
             /\ get_pull_request(run.args, project, Reversed(Fetched)) = Returns(run.value)
        /\ rejected => run.state = "threw" /\ run.value = JUndef
        /\ (run.state = "threw" /\ ~rejected /\ ~AccessorFailed /\ ~ProjectMissing) =>
             Len(Fetched) = 2

\* the threads arrived before the pull request, and the handler returned
C24_Witness ==
  /\ run.tool = "get_pull_request"
  /\ run.state = "returned"
  /\ Len(Fetched) = 2
  /\ Fetched[1].endpoint = "getThreads"
  /\ Fetched[2].endpoint = "getPullRequest"
  /\ Len(Values(Get(run.value, "threads"))) = 2
  /\ Get(run.value, "title") = JStr("Fix crash")

\* C25: `top` is a maximum for list_test_runs and get_test_results: the
\* call returns no more items than the validated `top` says (0 included),
\* and they are the first items of the upstream list, in its order.
C25_TopIsAMaximum ==
  (run.tool \in {"list_test_runs", "get_test_results"} /\ run.state = "returned") =>
    LET top == Get(run.args, "top").n
        all == Values(Fetched[1].data)
        returned == Values(run.value)
    IN  /\ Len(returned) <= top
        /\ Len(returned) <= Len(all)
        /\ \A i \in 1..Len(returned) : Get(returned[i], "id") = Get(all[i], "id")

\* the findings of the logs read so far, log by log in the order read; a
\* log whose lines could not be read has none
FindingsRead ==
  LET reads == AnswersOf(Fetched, "getBuildLogLines")
      found == SelectSeq([k \in 1..Len(reads) |->
                            IF reads[k].ok
                            THEN FindingsIn(Values(reads[k].data), reads[k].params[3])
                            ELSE [errors |-> <<>>, warnings |-> <<>>, issues |-> <<>>]],
                         LAMBDA f : TRUE)
  IN  [errors |-> Flatten([k \in 1..Len(found) |-> found[k].errors]),
       warnings |-> Flatten([k \in 1..Len(found) |-> found[k].warnings]),
       issues |-> Flatten([k \in 1..Len(found) |-> found[k].issues])]

\* the first n elements of a sequence
FirstOf(seq, n) == [i \in 1..(IF Len(seq) < n THEN Len(seq) ELSE n) |-> seq[i]]

\* C26: once analyze_build_errors has the build and its list of logs, it does
\* not fail, whichever logs cannot be read; it reads the logs in list
\* order, and its result has the first 50 errors, warnings and issues found
\* in the logs that could be read, in log order, and their total numbers.
C26_UnreadableLogsAreSkipped ==
  (/\ run.tool = "analyze_build_errors"
   /\ Len(Fetched) >= 2
   /\ Fetched[1].ok
   /\ Fetched[2].ok) =>
    /\ run.state # "threw"
    /\ run.state = "returned" =>
         LET logs == Values(Fetched[2].data)
             ids == [k \in 1..Len(logs) |-> Get(logs[k], "id")]
             reads == AnswersOf(Fetched, "getBuildLogLines")
             summary == Get(run.value, "summary")
         IN  /\ [k \in 1..Len(reads) |-> reads[k].params[3]]
                  = SelectSeq(ids, LAMBDA id : id # JUndef)
             /\ Values(Get(run.value, "errors")) = FirstOf(FindingsRead.errors, 50)
             /\ Values(Get(run.value, "warnings")) = FirstOf(FindingsRead.warnings, 50)
             /\ Values(Get(run.value, "issues")) = FirstOf(FindingsRead.issues, 50)
             /\ Get(summary, "errorCount") = JNum(Len(FindingsRead.errors))
             /\ Get(summary, "warningCount") = JNum(Len(FindingsRead.warnings))
             /\ Get(summary, "issueCount") = JNum(Len(FindingsRead.issues))

\* one of two logs could not be read and the findings of the other are reported
C26_Witness ==
  /\ run.tool = "analyze_build_errors"
  /\ run.state = "returned"
  /\ Len(Fetched) = 4
  /\ ~Fetched[3].ok
  /\ Fetched[4].ok
  /\ Get(Get(run.value, "summary"), "issueCount") = JNum(1)
  /\ Values(Get(run.value, "errors")) = <<JStr("src/a.cs(1,1): error CS1002: ; expected")>>

\* the failed results the upstream has answered with, in the order fetched
FailedResults ==
  LET reads == AnswersOf(Fetched, "getTestResults")
  IN  Flatten([k \in 1..Len(reads) |->
                 SelectSeq(Values(reads[k].data),
                           LAMBDA r : Get(r, "outcome") = JStr("Failed"))])

\* the first 100 characters of a failed result's message, 'Unknown error'
\* when it has none
KeyOf(result) ==
  LET message == Get(result, "errorMessage")
  IN  IF message.t = "string" /\ message.s # ""
      THEN JStr(SubSeq(message.s, 1, IF Len(message.s) < 100 THEN Len(message.s) ELSE 100))
      ELSE JStr("Unknown error")

\* C27: analyze_test_failures, when none of its requests fails, returns the
\* failed results partitioned by the key of their message: every group
\* reported is one key with the number of failures of that key and the names
\* of the first min(count, 5) of them, the groups are the min(20, number of
\* keys) largest in non-increasing order of count, and totalFailures is the
\* number of failed results.
C27_FailuresAreGroupedByMessage ==
  (/\ run.tool = "analyze_test_failures"
   /\ run.state \in {"returned", "threw"}
   /\ \A k \in 1..Len(run.answers) : run.answers[k].ok) =>
    /\ run.state = "returned"
    /\ LET failed == FailedResults
           keys == { KeyOf(failed[i]) : i \in 1..Len(failed) }
           of(key) == SelectSeq(failed, LAMBDA r : KeyOf(r) = key)
           groups == Values(Get(run.value, "failureGroups"))
           count(g) == Get(g, "count").n
           reported == { Get(groups[i], "errorMessage") : i \in 1..Len(groups) }
       IN  /\ Get(run.value, "totalFailures") = JNum(Len(failed))
           /\ Len(groups) = (IF Cardinality(keys) < 20 THEN Cardinality(keys) ELSE 20)
           /\ reported \subseteq keys
           /\ Cardinality(reported) = Len(groups)
           /\ \A i \in 1..Len(groups) :
                LET members == of(Get(groups[i], "errorMessage"))
                    tests == Values(Get(groups[i], "affectedTests"))
                IN  /\ count(groups[i]) = Len(members)
                    /\ Len(tests) = (IF Len(members) < 5 THEN Len(members) ELSE 5)
                    /\ \A t \in 1..Len(tests) :
                         tests[t] = Or(Or(Get(members[t], "automatedTestName"),
                                          Get(members[t], "testCaseTitle")), JStr("Unknown"))
           /\ \A i \in 1..(Len(groups) - 1) : count(groups[i]) >= count(groups[i + 1])
           /\ \A key \in keys \ reported :
                \A i \in 1..Len(groups) : count(groups[i]) >= Len(of(key))

\* the branch a request to the repository reads: the one its version
\* descriptor (the ninth parameter of getItems and of getItemContent) names,
\* and the repository's default branch when it has none
BranchRead(request) ==
  IF Len(request.params) >= 9 /\ request.params[9].t = "object"
  THEN Get(request.params[9], "version")
  ELSE ShortBranch(Get(DataOf(Fetched, "getRepository"), "defaultBranch"))

\* C28: search_code with `branch` given reads the file listing and every
\* file's content on that branch, and the `branch` of its result is the
\* branch its requests read.
C28_SearchReadsTheBranchAsked ==
  (run.tool = "search_code" /\ Truthy(Get(run.args, "branch"))) =>
    LET reads == SelectSeq(run.issued,
                           LAMBDA r : r.endpoint \in {"getItems", "getItemContent"})
    IN  /\ \A i \in 1..Len(reads) : BranchRead(reads[i]) = Get(run.args, "branch")
        /\ run.state = "returned" =>
             \A i \in 1..Len(reads) : BranchRead(reads[i]) = Get(run.value, "branch")

\* the pipeline definition with the value of every variable flagged isSecret
\* replaced by `secret`
WithSecrets(definition, secret) ==
  LET variables == Get(definition, "variables")
      hidden(p) == IF Get(p.v, "isSecret") = JBool(TRUE)
                   THEN Prop(p.k, JObj([i \in 1..Len(p.v.items) |->
                                          IF p.v.items[i].k = "value"
                                          THEN Prop("value", JStr(secret))
                                          ELSE p.v.items[i]]))
                   ELSE p
  IN  IF variables.t # "object" THEN definition
      ELSE JObj([i \in 1..Len(definition.items) |->
                   IF definition.items[i].k = "variables"
                   THEN Prop("variables",
                             JObj([k \in 1..Len(variables.items) |-> hidden(variables.items[k])]))
                   ELSE definition.items[i]])

\* C29: get_pipeline_variables does not disclose a secret: every variable the
\* definition flags isSecret is returned with the value '***', and the result
\* is the one the handler has for the definition with other secret values.
C29_SecretValuesAreMasked ==
  (run.tool = "get_pipeline_variables" /\ run.state = "returned") =>
    LET definition == Fetched[1].data
        declared == Get(definition, "variables")
        returned == Values(Get(run.value, "variables"))
        project == requireProject(Get(run.args, "project"), defaultProject).p
        other == [Fetched[1] EXCEPT !.data = WithSecrets(definition, "another secret")]
    IN  /\ \A i \in 1..Len(returned) :
             Get(Get(declared, returned[i].items[1].v.s), "isSecret") = JBool(TRUE)
               => Get(returned[i], "value") = JStr("***")
        /\ declared.t = "object" => Len(returned) = Len(declared.items)
        /\ get_pipeline_variables(run.args, project, <<other>>) = Returns(run.value)

\* a definition with a secret variable among others was returned
C29_Witness ==
  /\ run.tool = "get_pipeline_variables"
  /\ run.state = "returned"
  /\ Get(Get(Get(Fetched[1].data, "variables"), "token"), "value") = JStr("hunter2")
  /\ WithSecrets(Fetched[1].data, "another secret") # Fetched[1].data
  /\ Get(Values(Get(run.value, "variables"))[1], "value") = JStr("***")
  /\ Get(Values(Get(run.value, "variables"))[2], "value") = JStr("eu")

\* C30: get_prs_for_work_item returns each pull request once: no two entries
\* of pullRequests have the same pullRequestId, and pullRequestCount is the
\* number of entries.
C30_EachPullRequestOnce ==
  (run.tool = "get_prs_for_work_item" /\ run.state = "returned") =>
    LET prs == Values(Get(run.value, "pullRequests"))
    IN  /\ Get(run.value, "pullRequestCount") = JNum(Len(prs))
        /\ \A i, j \in 1..Len(prs) :
             Get(prs[i], "pullRequestId") = Get(prs[j], "pullRequestId") => i = j
====
